---- MODULE Spec2Model ----
(***************************************************************************)
(* Model of the userparser monitoring core.                                *)
(*                                                                         *)
(*   PoolSpec      the two in-memory connection registries                 *)
(*                 (userbot/client.py UserBotPool,                         *)
(*                  userbot/shared_pool.py SharedMonitorPool) with their   *)
(*                 asyncio locks; one step per stretch of code between two *)
(*                 awaits.  The two pools share no state, so a behaviour   *)
(*                 follows one of them (kind).                             *)
(*   MatchSpec     MessageParser (bot/services/parser.py) applied to every *)
(*                 text, keyword list and city list of bounded sets.      *)
(*   DispatchSpec  the message handlers of both modes                      *)
(*                 (SharedMonitorPool._dispatch_to_users,                  *)
(*                 process_group_message) against the operations that     *)
(*                 change a user's flags, one step per committed          *)
(*                 statement.                                              *)
(*   SyncSpec      the shared dispatch against concurrent                  *)
(*                 GroupCRUD.sync_groups calls.                            *)
(*   ConnSpec      one running Connection (UserBotClient or               *)
(*                 SharedWorkerClient): its message handler, its          *)
(*                 refresh_groups and the changes of its owner's enabled  *)
(*                 set.  ConnLiveSpec is the running bot around a user's  *)
(*                 Connection, with a fair event loop.                    *)
(*   RedistSpec    GroupDistributor.redistribute_groups, called once.     *)
(*   AssignSpec    GroupDistributor.assign_new_group, called once.        *)
(*   RaceSpec      concurrent calls of the GroupDistributor.              *)
(*   RespondSpec   the order_take callback, called concurrently.           *)
(*   PurgeSpec     the scheduler's _cleanup_old_messages beside the shared *)
(*                 dispatch.                                               *)
(*   ExpirySpec    the scheduler's _check_subscriptions beside payments,   *)
(*                 logins and monitoring_start.                            *)
(*   FlagSpec      the handlers that change keywords, enabled groups and   *)
(*                 the monitoring flag, with the dashboard's toggle.       *)
(*   RefreshSpec   groups_refresh (get_dialogs, sync_groups), one call at a*)
(*                 time.                                                   *)
(*   NotifySpec    the loop of _dispatch_to_users pass by pass: filters,   *)
(*                 delivery row, order row and send, each of which may     *)
(*                 raise inside the one session of the loop.               *)
(*   SchedSpec     SubscriptionScheduler.start and stop with the two       *)
(*                 loops, under a fair event loop.                         *)
(*   ToggleSpec    monitoring_start and monitoring_stop of one user,       *)
(*                 interleaved at their awaits.                            *)
(*   CallbackSpec  start_active_userbots, the monitoring handlers and the  *)
(*                 messages a running per-user Connection hands to its     *)
(*                 callback.                                               *)
(*   PaySpec       one payment under the webhook, the pending-payment      *)
(*                 poller and the check-payment button.                    *)
(***************************************************************************)
EXTENDS Integers, Sequences, FiniteSets, TLC

\* ------------------------------------------------------------------ bounds
NumTasks == 2        \* concurrently running coroutines that call a pool
NumOwners == 2       \* user_db_id / worker.id values
MaxConns == 2        \* client objects of one owner alive at once
MaxTextLen == 3      \* characters of a message text
MaxKeywords == 2     \* Keyword rows of one user
MaxCities == 2       \* City rows of one user
NumUsers == 2        \* rows of the users table
NumChats == 1        \* Telegram chats (telegram_group_id values)
NumSyncs == 2        \* sync_groups calls running at the same time
MaxTime == 1         \* the clock runs from 0 to MaxTime
MaxMsgs == 1         \* inbound messages handled in one behaviour
NumWatched == 2      \* chats a Connection's owner can have it watch
NumRefreshes == 1    \* refresh_groups calls running at the same time
NumDemanded == 3     \* chats the distributor is asked to place
MaxGroups == 2       \* largest max_groups of a worker
NumOrders == 2       \* rows of the orders table a callback can name
NumNames == 2        \* titles a chat can have
MaxDialogs == 2      \* dialogs Telegram lists for one refresh
MaxAwaits == 2       \* awaits inside one iteration of a scheduler loop
MaxAge == 3          \* the clock of the purge sweep runs from 0 to MaxAge
MaxExtensions == 3   \* extensions of the subscription for one payment

None == 0
Tasks == 1..NumTasks
Owners == 1..NumOwners
ConnIds == 1..MaxConns
Users == 1..NumUsers
Chats == 1..NumChats
Syncs == 1..NumSyncs
Watched == 1..NumWatched
Refreshes == 1..NumRefreshes
GroupIds == 1..(NumUsers * NumChats * NumSyncs)
\* "user" is UserBotPool, "shared" is SharedMonitorPool.
Pools == {"user", "shared"}

VARIABLES
    kind,           \* which pool this behaviour follows
    clients,        \* [Owners -> ConnIds \cup {None}]: _clients / _workers
    lock,           \* Tasks \cup {None}: the holder of the pool's _lock
    conn,           \* [Owners -> [ConnIds -> record]]: the client objects alive
    task,           \* [Tasks -> record]: each coroutine's position and locals
    last,           \* the call that returned last, and what it returned
    worker_status   \* [Owners -> record]: MonitorWorker.is_active / last_error

poolVars == <<kind, clients, lock, conn, task, last, worker_status>>

VARIABLES
    text,           \* the message text handed to MessageParser.check_message
    parser,         \* the MessageParser: its keywords and its cities
    found,          \* what _find_keyword_match returned, once it was called
    checked         \* what check_message returned, once it was called

matchVars == <<text, parser, found, checked>>

VARIABLES
    users,          \* [Users -> record]: the users table
    groups,         \* [GroupIds -> record]: the groups table, NoGroup for no row
    now,            \* datetime.utcnow()
    _bot,           \* whether SharedMonitorPool._bot is set
    received,       \* how many inbound messages the handlers were given
    shared_messages,\* the shared_group_messages table, a row's id its position
    deliveries,     \* the order_deliveries table
    orders,         \* the orders table
    notifications,  \* the messages sent with bot.send_message
    job,            \* the message handler in progress and its locals
    syncs           \* [Syncs -> record]: the sync_groups calls in progress

dbVars == <<users, groups, now, _bot, received, shared_messages, deliveries,
            orders, notifications, job, syncs>>

VARIABLES
    monitored_groups,\* [Owners -> SUBSET Watched]: each Connection's watch-list
    refresh,        \* [Refreshes -> record]: each refresh_groups call's position
    handled,        \* the last message given to _handle_message, and its fate
    loaded          \* the sets _load_monitored_groups has read so far

connVars == <<monitored_groups, refresh, handled, loaded>>

VARIABLES
    assignments,    \* the group_assignments table, in insertion order
    workers,        \* [Owners -> record]: the monitor_workers table
    dtask           \* [Tasks -> record]: each GroupDistributor call's position

distVars == <<assignments, workers, dtask>>

VARIABLES
    keyword_rows,   \* [Users -> SUBSET KeywordIds]: the keywords table
    replies,        \* the replies order_take has sent into the chats
    rtask,          \* [Tasks -> record]: each order_take call's position
    sweep,          \* the scheduler's sweep in progress and its locals
    synced,         \* the last sync_groups call that returned, and its result
    on_delete,      \* what deleting a shared_group_messages row does to the
                    \* order_deliveries rows that refer to it
    mstart,         \* [Users -> record]: each monitoring_start call's position
    batch,          \* the loop of _dispatch_to_users: its position inside a
                    \* pass, its session, and the sends it attempted
    sched,          \* the SubscriptionScheduler: _running, its two tasks and
                    \* the position of stop()
    inbound,        \* the messages that passed a Connection's filters, and
                    \* what became of the callback's call
    pay             \* the payment: the gateway's status, the payments row,
                    \* pending_payments and each activation's position

botVars ==
    <<keyword_rows, replies, rtask, sweep, synced, on_delete, mstart, batch,
      sched, inbound, pay>>

\* What a pool operation leaves alone.
notPool == <<matchVars, dbVars, connVars, distVars, botVars>>

\* A slot holding no client object, and one holding a client.
NoConn == [built |-> FALSE, _running |-> FALSE]
Client(running) == [built |-> TRUE, _running |-> running]

IdleTask == [pc |-> "idle", key |-> None, c |-> None, todo |-> {}, began |-> {}]

\* built: whether the call constructed a client object.
NoCall == [op |-> "none", key |-> None, ret |-> "none", built |-> FALSE]
Returned(op, k, r, b) == [op |-> op, key |-> k, ret |-> r, built |-> b]

\* The pools as constructed: nothing registered, nobody inside a call.
NoClients == [k \in Owners |-> None]
NoConns == [k \in Owners |-> [c \in ConnIds |-> NoConn]]
NoTasks == [t \in Tasks |-> IdleTask]
NoStatus == [k \in Owners |-> [is_active |-> TRUE, last_error |-> FALSE]]

\* ------------------------------------------------------ the pool's own reads

\* `async with self._lock`: the body is entered only while nobody holds the lock.
\* A coroutine suspended on the lock has done nothing yet, so a call is modelled
\* from the moment it gets the lock.
LockFreeNoLock == TRUE
LockFree == lock = None

\* `if user_db_id in self._clients` / `if worker.id in self._workers`.
AlreadyRegisteredNever(k) == FALSE
AlreadyRegistered(k) == clients[k] # None

\* is_running(user_db_id)
is_running(k) == clients[k] # None

\* The registry after start() raised: the except branch returns without having
\* stored the client.
RegistryAfterFailedStartKept(k, c) == [clients EXCEPT ![k] = c]
RegistryAfterFailedStart(k, c) == clients

\* The client objects of one owner whose start() completed and whose stop() has
\* not been called (UserBotClient._running / SharedWorkerClient._running).
Started(k) == {c \in ConnIds : conn[k][c]._running}

\* A slot for `UserBotClient(...)` / `SharedWorkerClient(...)`.
FreeConns(k) == {c \in ConnIds : conn[k][c] = NoConn}
NewConn(k) == CHOOSE c \in FreeConns(k) : \A d \in FreeConns(k) : c <= d

\* Reference counting: an object that no registry entry and no coroutine holds,
\* and whose transport is not running, is gone.
Sweep(cn, reg, tk) ==
    [k \in Owners |-> [c \in ConnIds |->
        IF \/ cn[k][c]._running
           \/ reg[k] = c
           \/ \E t \in Tasks : tk[t].key = k /\ tk[t].c = c
        THEN cn[k][c] ELSE NoConn]]

\* The coroutine returns (or raises) and drops its locals.
Finish(t) == [task EXCEPT ![t] = IdleTask]

\* ------------------------------------------------------------- start_client

\* start_client(owner) / _start_worker(worker) gets the lock.  The registered
\* branch returns True at once; the other builds a client and runs start() up to
\* its first await (_load_monitored_groups).
StartAcquire(t, k) ==
    /\ task[t].pc = "idle"
    /\ LockFree
    /\ IF AlreadyRegistered(k)
       THEN /\ last' = Returned("start", k, "true", FALSE)
            /\ UNCHANGED <<clients, lock, conn, task>>
       ELSE /\ FreeConns(k) # {}
            /\ conn' = [conn EXCEPT ![k][NewConn(k)] = Client(FALSE)]
            /\ lock' = t
            /\ task' = [task EXCEPT ![t] =
                           [IdleTask EXCEPT !.pc = "start_load", !.key = k,
                                            !.c = NewConn(k)]]
            /\ UNCHANGED <<clients, last>>
    /\ UNCHANGED <<notPool, kind, worker_status>>

\* start() failed inside the try block: UserBotPool returns False,
\* SharedMonitorPool goes on to record the error.
StartFailed(t) ==
    LET k == task[t].key
        c == task[t].c
        tk == IF kind = "user"
              THEN Finish(t)
              ELSE [task EXCEPT ![t].pc = "start_status_err", ![t].c = None]
    IN  /\ clients' = RegistryAfterFailedStart(k, c)
        /\ lock' = IF kind = "user" THEN None ELSE lock
        /\ task' = tk
        /\ last' = IF kind = "user" THEN Returned("start", k, "false", TRUE) ELSE last
        /\ conn' = Sweep(conn, clients', tk)
        /\ UNCHANGED <<notPool, kind, worker_status>>

\* `await self._load_monitored_groups()` returns, add_handler, and start()
\* reaches `await self.client.start()`.
StartLoadOk(t) ==
    /\ task[t].pc = "start_load"
    /\ task' = [task EXCEPT ![t].pc = "start_connect"]
    /\ UNCHANGED <<notPool, kind, clients, lock, conn, last, worker_status>>

\* The read of the watch-list raised.
StartLoadRaise(t) ==
    /\ task[t].pc = "start_load"
    /\ StartFailed(t)

\* `await self.client.start()` returns: _running = True and the client is stored.
StartConnectOk(t) ==
    LET k == task[t].key
        c == task[t].c
    IN  /\ task[t].pc = "start_connect"
        /\ conn' = [conn EXCEPT ![k][c]._running = TRUE]
        /\ clients' = [clients EXCEPT ![k] = c]
        /\ IF kind = "user"
           THEN /\ lock' = None
                /\ task' = Finish(t)
                /\ last' = Returned("start", k, "true", TRUE)
           ELSE /\ lock' = lock
                /\ task' = [task EXCEPT ![t].pc = "start_status_ok", ![t].c = None]
                /\ last' = last
        /\ UNCHANGED <<notPool, kind, worker_status>>

\* `await self.client.start()` raised (Auth or Transport error).
StartConnectRaise(t) ==
    /\ task[t].pc = "start_connect"
    /\ StartFailed(t)

\* SharedMonitorPool only: update_status(is_active=True, last_error=None) commits.
StartStatusOk(t) ==
    /\ task[t].pc = "start_status_ok"
    /\ worker_status' = [worker_status EXCEPT ![task[t].key] =
                            [is_active |-> TRUE, last_error |-> FALSE]]
    /\ lock' = None
    /\ task' = Finish(t)
    /\ last' = Returned("start", task[t].key, "true", TRUE)
    /\ UNCHANGED <<notPool, kind, clients, conn>>

\* SharedMonitorPool only: that update raised, still inside the try block.
StartStatusOkRaise(t) ==
    /\ task[t].pc = "start_status_ok"
    /\ task' = [task EXCEPT ![t].pc = "start_status_err"]
    /\ UNCHANGED <<notPool, kind, clients, lock, conn, last, worker_status>>

\* SharedMonitorPool only: the except branch records the error and returns False.
StartStatusErr(t) ==
    /\ task[t].pc = "start_status_err"
    /\ worker_status' = [worker_status EXCEPT ![task[t].key] =
                            [is_active |-> FALSE, last_error |-> TRUE]]
    /\ lock' = None
    /\ task' = Finish(t)
    /\ last' = Returned("start", task[t].key, "false", TRUE)
    /\ UNCHANGED <<notPool, kind, clients, conn>>

\* SharedMonitorPool only: recording the error raised too; the exception leaves
\* _start_worker and `async with` releases the lock.
StartStatusErrRaise(t) ==
    /\ task[t].pc = "start_status_err"
    /\ lock' = None
    /\ task' = Finish(t)
    /\ last' = Returned("start", task[t].key, "raised", TRUE)
    /\ UNCHANGED <<notPool, kind, clients, conn, worker_status>>

\* -------------------------------------------------------------- stop_client

\* stop_client(owner) / stop_worker(id) gets the lock.  Not registered: nothing
\* happens.  Registered and stop() returns at its `if not self._running` guard:
\* the entry is deleted.  Otherwise _running is cleared and stop() awaits the
\* transport's stop.
StopAcquire(t, k) ==
    LET c == clients[k]
    IN  /\ task[t].pc = "idle"
        /\ LockFree
        /\ IF ~AlreadyRegistered(k)
           THEN /\ last' = Returned("stop", k, "returned", FALSE)
                /\ UNCHANGED <<clients, lock, conn, task>>
           ELSE IF ~conn[k][c]._running
           THEN /\ clients' = [clients EXCEPT ![k] = None]
                /\ last' = Returned("stop", k, "returned", FALSE)
                /\ conn' = Sweep(conn, clients', task)
                /\ UNCHANGED <<lock, task>>
           ELSE /\ conn' = [conn EXCEPT ![k][c]._running = FALSE]
                /\ lock' = t
                /\ task' = [task EXCEPT ![t] =
                               [IdleTask EXCEPT !.pc = "stop_wait", !.key = k,
                                                !.c = c]]
                /\ UNCHANGED <<clients, last>>
        /\ UNCHANGED <<notPool, kind, worker_status>>

\* `await self.client.stop()` returns: `del self._clients[user_db_id]`.
StopWaitOk(t) ==
    /\ task[t].pc = "stop_wait"
    /\ clients' = [clients EXCEPT ![task[t].key] = None]
    /\ lock' = None
    /\ task' = Finish(t)
    /\ last' = Returned("stop", task[t].key, "returned", FALSE)
    /\ conn' = Sweep(conn, clients', task')
    /\ UNCHANGED <<notPool, kind, worker_status>>

\* `await self.client.stop()` raised: nothing catches it, the `del` is skipped.
StopWaitRaise(t) ==
    /\ task[t].pc = "stop_wait"
    /\ lock' = None
    /\ task' = Finish(t)
    /\ last' = Returned("stop", task[t].key, "raised", FALSE)
    /\ UNCHANGED <<notPool, kind, clients, conn, worker_status>>

\* ----------------------------------------------------------------- stop_all

\* stop_all() gets the lock and evaluates `list(self._clients.keys())`.
AllAcquire(t) ==
    LET keys == {k \in Owners : clients[k] # None}
    IN  /\ task[t].pc = "idle"
        /\ LockFree
        /\ lock' = t
        /\ task' = [task EXCEPT ![t] =
                       [IdleTask EXCEPT !.pc = "all_loop", !.todo = keys,
                                        !.began = keys]]
        /\ UNCHANGED <<notPool, kind, clients, conn, last, worker_status>>

\* After the last key: `self._clients.clear()`.
AllClear(t) ==
    /\ task[t].pc = "all_loop"
    /\ task[t].todo = {}
    /\ clients' = [k \in Owners |-> None]
    /\ lock' = None
    /\ task' = Finish(t)
    /\ last' = Returned("stop_all", None, "returned", FALSE)
    /\ conn' = Sweep(conn, clients', task')
    /\ UNCHANGED <<notPool, kind, worker_status>>

\* One turn of the for loop up to the next await; a client whose stop() returns
\* at its guard takes no await; a key deleted meanwhile is a KeyError.
AllStep(t) ==
    /\ task[t].pc = "all_loop"
    /\ \E k \in task[t].todo :
           LET c == clients[k]
           IN  IF c = None
               THEN /\ lock' = None
                    /\ task' = Finish(t)
                    /\ last' = Returned("stop_all", None, "raised", FALSE)
                    /\ UNCHANGED conn
               ELSE IF ~conn[k][c]._running
               THEN /\ task' = [task EXCEPT ![t].todo = @ \ {k}]
                    /\ UNCHANGED <<lock, conn, last>>
               ELSE /\ conn' = [conn EXCEPT ![k][c]._running = FALSE]
                    /\ task' = [task EXCEPT ![t].pc = "all_wait",
                                            ![t].key = k, ![t].c = c]
                    /\ UNCHANGED <<lock, last>>
    /\ UNCHANGED <<notPool, kind, clients, worker_status>>

\* `await self._clients[user_db_id].stop()` returns inside the loop.
AllWaitOk(t) ==
    /\ task[t].pc = "all_wait"
    /\ task' = [task EXCEPT ![t].pc = "all_loop", ![t].c = None, ![t].key = None,
                            ![t].todo = @ \ {task[t].key}]
    /\ UNCHANGED <<notPool, kind, clients, lock, conn, last, worker_status>>

\* It raised: the exception leaves the loop and stop_all; clear() is not reached.
AllWaitRaise(t) ==
    /\ task[t].pc = "all_wait"
    /\ lock' = None
    /\ task' = Finish(t)
    /\ last' = Returned("stop_all", None, "raised", FALSE)
    /\ UNCHANGED <<notPool, kind, clients, conn, worker_status>>

\* ------------------------------------------------------------ specification

PoolNext ==
    \E t \in Tasks :
        \/ \E k \in Owners : StartAcquire(t, k)
        \/ StartLoadOk(t)
        \/ StartLoadRaise(t)
        \/ StartConnectOk(t)
        \/ StartConnectRaise(t)
        \/ StartStatusOk(t)
        \/ StartStatusOkRaise(t)
        \/ StartStatusErr(t)
        \/ StartStatusErrRaise(t)
        \/ \E k \in Owners : StopAcquire(t, k)
        \/ StopWaitOk(t)
        \/ StopWaitRaise(t)
        \/ AllAcquire(t)
        \/ AllClear(t)
        \/ AllStep(t)
        \/ AllWaitOk(t)
        \/ AllWaitRaise(t)


\* ----------------------------------------------------------------- matcher
\* bot/services/parser.py and bot/utils/cities_data.py.  A string is a
\* sequence of characters; a character is written by a name:
\*   cy_t  cy_a   the Russian lowercase letters U+0442, U+0430
\*   CY_T         the Russian capital letter U+0422
\*   cy_i         the Cyrillic lowercase letter U+0456 (Ukrainian, Belarusian,
\*                Kazakh), which lies outside U+0430..U+044F and is not U+0451
\*   la_x         a lowercase letter of a-z
\*   d5           a digit
\*   sp           the space
\*   dot          a punctuation mark
Alphabet == {"cy_t", "cy_a", "CY_T", "cy_i", "la_x", "d5", "sp", "dot"}

\* str.lower(), character by character.
LowerChar(ch) == IF ch = "CY_T" THEN "cy_t" ELSE ch
lower(s) == [i \in 1..Len(s) |-> LowerChar(s[i])]

\* The characters of the alphabet that the class [а-яёa-z0-9] of the pattern
\* contains.
PatternClass == {"cy_t", "cy_a", "la_x", "d5"}

\* Optional[str]: None is the empty sequence, a value is a one-element sequence.
Nothing == <<>>
Some(x) == <<x>>

\* k occurs in s at position i.
OccursAt(k, s, i) ==
    /\ i + Len(k) - 1 <= Len(s)
    /\ SubSeq(s, i, i + Len(k) - 1) = k

\* `variation in text`
Contains(s, k) == \E i \in 1..(Len(s) + 1) : OccursAt(k, s, i)

\* re.search of (?<![class])keyword(?![class]) in s; re.escape makes the keyword
\* match itself literally.
PatternSearch(keyword, s) ==
    \E i \in 1..Len(s) :
        /\ OccursAt(keyword, s, i)
        /\ (i = 1 \/ s[i - 1] \notin PatternClass)
        /\ (i + Len(keyword) > Len(s) \/ s[i + Len(keyword)] \notin PatternClass)

First(S) == CHOOSE i \in S : \A j \in S : i <= j

\* MessageParser.__init__: original_keywords and keywords come from the Keyword
\* rows, cities are the City rows.
MessageParser(kws, cts) ==
    [original_keywords |-> kws,
     keywords |-> [i \in 1..Len(kws) |-> lower(kws[i])],
     cities |-> cts]

_find_keyword_match(p, text_lower) ==
    LET text_normalized == <<"sp">> \o text_lower \o <<"sp">>
        hits == {i \in 1..Len(p.keywords) :
                    PatternSearch(p.keywords[i], text_normalized)}
    IN  IF hits = {} THEN Nothing ELSE Some(p.original_keywords[First(hits)])

search_city_in_text(t, city_variations) ==
    \E n \in 1..Len(city_variations) : Contains(lower(t), lower(city_variations[n]))

Result(is_match, keyword, city) ==
    [is_match |-> is_match, keyword |-> keyword, city |-> city]

\* `if not x` for an Optional[str]: None and the empty string are both false.
Falsy(x) == x = Nothing \/ x[1] = <<>>

check_message(p, t) ==
    IF t = <<>> THEN Result(FALSE, Nothing, Nothing)
    ELSE LET found_keyword == _find_keyword_match(p, lower(t))
             hits == {i \in 1..Len(p.cities) :
                         search_city_in_text(t, p.cities[i].variations)}
             found_city == IF hits = {} THEN Nothing
                           ELSE Some(p.cities[First(hits)].city_name)
         IN  IF Falsy(found_keyword) THEN Result(FALSE, Nothing, Nothing)
             ELSE IF p.cities = <<>> THEN Result(TRUE, found_keyword, Nothing)
             ELSE IF ~Falsy(found_city) THEN Result(TRUE, found_keyword, found_city)
             ELSE Result(FALSE, Nothing, Nothing)

\* The inputs.  Keyword rows come back ordered by word and City rows by
\* city_name (crud.py get_user_keywords, get_user_cities), so a list is a
\* selection from a pool that is written in that order.  A keyword is stored
\* stripped and lowercased with at least two characters (handlers/keywords.py);
\* a city carries the variations generated for it (handlers/cities.py).
\* Longer texts in which two keywords and the variations of two cities occur.
LongTexts ==
    { <<"cy_t", "cy_a", "sp", "la_x", "d5">>,
      <<"CY_T", "cy_a", "sp", "la_x", "d5">>,
      <<"cy_t", "cy_t", "sp", "cy_t", "cy_a", "sp", "la_x", "d5">>,
      <<"cy_t", "cy_t", "sp", "cy_t", "cy_a">>,
      <<"cy_a", "cy_t", "cy_i", "sp", "cy_t", "cy_a">> }

Texts == UNION {[1..n -> Alphabet] : n \in 0..MaxTextLen} \cup LongTexts

KeywordPool ==
    << <<"la_x", "d5">>, <<"cy_a", "cy_t">>, <<"cy_t", "cy_a">> >>

CityPool ==
    << [city_name |-> <<"CY_T", "cy_a">>,
        variations |-> << <<"cy_t", "cy_a">>, <<"cy_t", "dot">> >>],
       [city_name |-> <<"CY_T", "cy_t">>,
        variations |-> << <<"cy_t", "cy_t">> >>] >>

\* The members of pool at the positions S, in the pool's order.
Pick(pool, S) ==
    LET F[i \in 0..Len(pool)] ==
            IF i = 0 THEN <<>>
            ELSE IF i \in S THEN Append(F[i - 1], pool[i]) ELSE F[i - 1]
    IN  F[Len(pool)]

SubLists(pool, n) ==
    {Pick(pool, S) : S \in {T \in SUBSET (1..Len(pool)) : Cardinality(T) <= n}}

Parsers ==
    {MessageParser(k, c) : k \in SubLists(KeywordPool, MaxKeywords),
                           c \in SubLists(CityPool, MaxCities)}

\* parser._find_keyword_match(text.lower())
FindKeywordMatch ==
    /\ found = Nothing
    /\ found' = Some(_find_keyword_match(parser, lower(text)))
    /\ UNCHANGED <<botVars, poolVars, dbVars, connVars, distVars, text, parser, checked>>

\* parser.check_message(text)
CheckMessage ==
    /\ checked = Nothing
    /\ checked' = Some(check_message(parser, text))
    /\ UNCHANGED <<botVars, poolVars, dbVars, connVars, distVars, text, parser, found>>

MatchNext ==
    \/ FindKeywordMatch
    \/ CheckMessage

\* ---------------------------------------------------------------- database
\* The tables the message handlers read and write (bot/database/models.py,
\* bot/database/crud.py), the operations that change a user's flags
\* (admin/db.py, bot/handlers/admin.py) and the clock.  Every statement that is
\* awaited and committed is one step.

\* A users row.  subscription_end is None (0) or a time; response_text keeps its
\* default; session_string is whether one is stored.  A row is created with
\* is_active true, and the account is authorised before anything here runs.
User(monitoring_enabled, is_banned, subscription_end) ==
    [monitoring_enabled |-> monitoring_enabled, is_banned |-> is_banned,
     subscription_end |-> subscription_end, is_active |-> TRUE,
     session_string |-> TRUE]

\* A groups row; groups has no unique constraint on (user_id, telegram_group_id).
\* group_name is a number that stands for the title; where chats keep their
\* titles, a chat's number stands for its title.
NoGroup ==
    [user_id |-> None, telegram_group_id |-> None, is_enabled |-> FALSE,
     group_name |-> None]
Group(user_id, telegram_group_id, is_enabled) ==
    [user_id |-> user_id, telegram_group_id |-> telegram_group_id,
     is_enabled |-> is_enabled, group_name |-> telegram_group_id]

\* The Keyword and City rows the matcher loads for a user; the dispatch keeps
\* them as they are.
UserKeywords(u) == IF u % 3 = 0 THEN <<>> ELSE << <<"cy_t", "cy_a">> >>
UserCities(u) == IF u % 2 = 0 THEN <<CityPool[2]>> ELSE <<>>

\* The texts of the inbound messages: the first matches users with the
\* keyword, the second also names the city.
MessageTexts ==
    { <<"cy_t", "cy_a">>, <<"cy_t", "cy_t", "sp", "cy_t", "cy_a">> }

\* User.is_subscription_active and `User.subscription_end > datetime.utcnow()`;
\* a NULL subscription_end compares false.
is_subscription_active(user) ==
    user.subscription_end # None /\ user.subscription_end > now

\* The new subscription_end of UserCRUD.update_subscription and of
\* activate_subscription: from the running end or from now; days is one step
\* of the clock.
ExtendedEnd(user) ==
    IF is_subscription_active(user) THEN user.subscription_end + 1
    ELSE now + 1

\* GroupCRUD.get_enabled_groups(user_id), as the set of row ids.
get_enabled_groups(u) ==
    {g \in GroupIds : groups[g].user_id = u /\ groups[g].is_enabled}

\* The elements of a set of numbers in increasing order.
Sorted(S) ==
    LET F[T \in SUBSET S] ==
            IF T = {} THEN <<>>
            ELSE LET m == CHOOSE x \in T : \A y \in T : x <= y
                 IN  <<m>> \o F[T \ {m}]
    IN  F[S]

\* What is true of user u and chat c in the database right now; the handlers
\* record it on the rows they create.
Facts(u, c) ==
    [monitoring_enabled |-> users[u].monitoring_enabled,
     is_banned |-> users[u].is_banned,
     subscription_active |-> is_subscription_active(users[u]),
     chat_enabled |-> \E g \in get_enabled_groups(u) :
                          groups[g].telegram_group_id = c]

NoFacts ==
    [monitoring_enabled |-> FALSE, is_banned |-> FALSE,
     subscription_active |-> FALSE, chat_enabled |-> FALSE]

IdleJob ==
    [pc |-> "idle", telegram_group_id |-> None, message_id |-> None,
     message_text |-> <<>>, shared_message_id |-> None, user_groups |-> <<>>,
     user |-> None, at_read |-> NoFacts]

IdleSync == [pc |-> "idle", user_id |-> None, todo |-> <<>>, group |-> None]

\* ---- the clock and the operations on a user's flags

Tick ==
    /\ now' = now + 1
    /\ UNCHANGED <<botVars, poolVars, matchVars, connVars, distVars,
                   users, groups, _bot, received,
                   shared_messages, deliveries, orders, notifications, job, syncs>>

\* admin/db.py toggle_ban: banning also switches monitoring off.
toggle_ban(u, ban) ==
    /\ users' = [users EXCEPT ![u].is_banned = ban,
                              ![u].monitoring_enabled =
                                  IF ban THEN FALSE ELSE @]
    /\ UNCHANGED <<botVars, poolVars, matchVars, connVars, distVars,
                   groups, now, _bot, received,
                   shared_messages, deliveries, orders, notifications, job, syncs>>

\* admin/db.py toggle_monitoring and UserCRUD.toggle_monitoring.
toggle_monitoring(u, enabled) ==
    /\ users' = [users EXCEPT ![u].monitoring_enabled = enabled]
    /\ UNCHANGED <<botVars, poolVars, matchVars, connVars, distVars,
                   groups, now, _bot, received,
                   shared_messages, deliveries, orders, notifications, job, syncs>>

\* UserCRUD.set_banned, the first commit of the bot's admin ban and the only one
\* of its unban.
set_banned(u, is_banned) ==
    /\ users' = [users EXCEPT ![u].is_banned = is_banned]
    /\ UNCHANGED <<botVars, poolVars, matchVars, connVars, distVars,
                   groups, now, _bot, received,
                   shared_messages, deliveries, orders, notifications, job, syncs>>

\* GroupCRUD.toggle_group(group_id)
toggle_group(g) ==
    /\ groups[g] # NoGroup
    /\ groups' = [groups EXCEPT ![g].is_enabled = ~@]
    /\ UNCHANGED <<botVars, poolVars, matchVars, connVars, distVars,
                   users, now, _bot, received,
                   shared_messages, deliveries, orders, notifications, job, syncs>>

\* ---- shared pool: SharedMonitorPool._on_message and _dispatch_to_users

\* _on_message stores the message: SharedGroupMessageCRUD.add inserts a new
\* row for every call.
OnMessage(c, t) ==
    /\ job.pc = "idle"
    /\ received < MaxMsgs
    /\ received' = received + 1
    /\ shared_messages' = Append(shared_messages,
                                 [telegram_group_id |-> c,
                                  message_id |-> received + 1,
                                  message_text |-> t,
                                  created_at |-> now])
    /\ job' = [IdleJob EXCEPT !.pc = "dispatch",
                              !.telegram_group_id = c,
                              !.message_id = received + 1,
                              !.message_text = t,
                              !.shared_message_id = Len(shared_messages) + 1]
    /\ UNCHANGED <<botVars, poolVars, matchVars, connVars, distVars,
                   users, groups, now, _bot, deliveries,
                   orders, notifications, syncs>>

\* The where clause of the query of _dispatch_to_users, for the groups row g
\* joined to its user.
DispatchWhereNoBan(g, c) ==
    /\ groups[g] # NoGroup
    /\ groups[g].telegram_group_id = c
    /\ groups[g].is_enabled = TRUE
    /\ users[groups[g].user_id].monitoring_enabled = TRUE
    /\ users[groups[g].user_id].subscription_end > now
DispatchWhere(g, c) ==
    /\ groups[g] # NoGroup
    /\ groups[g].telegram_group_id = c
    /\ groups[g].is_enabled = TRUE
    /\ users[groups[g].user_id].monitoring_enabled = TRUE
    /\ users[groups[g].user_id].subscription_end > now
    /\ users[groups[g].user_id].is_banned = FALSE

\* result.fetchall(): one (group, user) pair for every groups row that passes.
\* at_dispatch notes what was true of the user when the query ran.
UserGroups(c) ==
    LET ids == Sorted({g \in GroupIds : DispatchWhere(g, c)})
    IN  [i \in 1..Len(ids) |->
            [group |-> ids[i], user |-> groups[ids[i]].user_id,
             at_dispatch |-> Facts(groups[ids[i]].user_id, c)]]

\* The query of _dispatch_to_users.
DispatchQuery ==
    /\ job.pc = "dispatch"
    /\ job' = IF UserGroups(job.telegram_group_id) = <<>> THEN IdleJob
              ELSE [job EXCEPT !.pc = "dispatch_loop",
                               !.user_groups = UserGroups(job.telegram_group_id)]
    /\ UNCHANGED <<botVars, poolVars, matchVars, connVars, distVars,
                   users, groups, now, _bot, received,
                   shared_messages, deliveries, orders, notifications, syncs>>

\* OrderDeliveryCRUD.add is a plain insert.  models.py does not hold the
\* OrderDelivery class; as the specification describes it, the table has no
\* unique constraint on (shared_message_id, user_id), so the insert succeeds.
InsertDelivery(table, row) == Append(table, row)

\* One pass of the loop over user_groups: the user's filters, the match,
\* OrderDeliveryCRUD.add and, with a bot, _send_notification, which creates the
\* Order (response_text is set) and sends the message.  created_at is the time
\* of the insert: OrderDelivery.delivered_at and Order.created_at.
DispatchUser ==
    /\ job.pc = "dispatch_loop"
    /\ LET row == Head(job.user_groups)
           u == row.user
           keywords == UserKeywords(u)
           p == MessageParser(keywords, UserCities(u))
           is_match == keywords # <<>> /\ check_message(p, job.message_text).is_match
           made == [user_id |-> u,
                    telegram_group_id |-> job.telegram_group_id,
                    message_id |-> job.message_id,
                    shared_message_id |-> job.shared_message_id,
                    mode |-> "shared",
                    created_at |-> now,
                    at |-> row.at_dispatch]
       IN  /\ deliveries' = IF is_match THEN InsertDelivery(deliveries, made)
                            ELSE deliveries
           /\ orders' = IF is_match /\ _bot THEN Append(orders, made) ELSE orders
           /\ notifications' = IF is_match /\ _bot THEN Append(notifications, made)
                               ELSE notifications
    /\ job' = IF Len(job.user_groups) = 1 THEN IdleJob
              ELSE [job EXCEPT !.user_groups = Tail(@)]
    /\ UNCHANGED <<botVars, poolVars, matchVars, connVars, distVars,
                   users, groups, now, _bot, received,
                   shared_messages, syncs>>

\* ---- _dispatch_to_users pass by pass, with the statements that can raise
\* The loop runs on one session, opened before the query.  A statement that
\* fails inside the session's transaction leaves the transaction aborted on
\* the server, and the loop never calls rollback: the session then raises on
\* every later statement.  A failure that does not reach the server leaves the
\* session as it was.  _send_notification opens a session of its own.

\* pc: the position inside the pass for the first pair of job.user_groups.
\* faulted: the (message, user) pairs whose own processing met a failure.
\* attempts: the calls of bot.send_message, in order.
IdleBatch ==
    [pc |-> "filters", session |-> "active", faulted |-> {}, attempts |-> <<>>]

\* The pass is over: the loop goes on to the next pair, or the session closes
\* and _on_message returns.
NextPass ==
    IF Len(job.user_groups) = 1 THEN IdleJob
    ELSE [job EXCEPT !.user_groups = Tail(@)]

EndPass(b) ==
    [b EXCEPT !.pc = "filters",
              !.session = IF Len(job.user_groups) = 1 THEN "active" ELSE @]

Pair == <<job.shared_message_id, Head(job.user_groups).user>>

\* The OrderDelivery or Order row, or the notification, of this pass.
Made ==
    [user_id |-> Head(job.user_groups).user,
     telegram_group_id |-> job.telegram_group_id,
     message_id |-> job.message_id,
     shared_message_id |-> job.shared_message_id,
     mode |-> "shared",
     created_at |-> now,
     at |-> Head(job.user_groups).at_dispatch]

\* get_user_keywords, get_user_cities, `if not keywords: continue` and
\* check_message.  fault: one of the two queries fails; broken: the failure
\* aborted the transaction.  On a session that is already invalid the first
\* query raises.  Every exception is caught by the pass's except.
UserFilters(fault, broken) ==
    /\ job.pc = "dispatch_loop"
    /\ batch.pc = "filters"
    /\ fault => batch.session = "active"
    /\ broken => fault
    /\ LET u == Head(job.user_groups).user
           keywords == UserKeywords(u)
           p == MessageParser(keywords, UserCities(u))
           is_match == /\ keywords # <<>>
                       /\ check_message(p, job.message_text).is_match
       IN  IF fault
           THEN /\ batch' = EndPass([batch EXCEPT
                                        !.session = IF broken THEN "invalid"
                                                    ELSE @,
                                        !.faulted = @ \cup {Pair}])
                /\ job' = NextPass
           ELSE IF batch.session = "invalid" \/ ~is_match
           THEN /\ batch' = EndPass(batch)
                /\ job' = NextPass
           ELSE /\ batch' = [batch EXCEPT !.pc = "deliver"]
                /\ UNCHANGED job
    /\ UNCHANGED <<inbound, pay, sched, poolVars, matchVars, connVars,
                   distVars, keyword_rows, replies, rtask, sweep, synced,
                   on_delete, mstart, users, groups, now, _bot, received,
                   shared_messages, deliveries, orders, notifications, syncs>>

\* OrderDeliveryCRUD.add: the insert and its commit, or a failure of them;
\* without a bot the pass ends here.
DeliveryAdd(fault, broken) ==
    /\ job.pc = "dispatch_loop"
    /\ batch.pc = "deliver"
    /\ broken => fault
    /\ IF fault
       THEN /\ batch' = EndPass([batch EXCEPT
                                    !.session = IF broken THEN "invalid"
                                                ELSE @,
                                    !.faulted = @ \cup {Pair}])
            /\ job' = NextPass
            /\ UNCHANGED deliveries
       ELSE /\ deliveries' = InsertDelivery(deliveries, Made)
            /\ IF _bot
               THEN /\ batch' = [batch EXCEPT !.pc = "order"]
                    /\ UNCHANGED job
               ELSE /\ batch' = EndPass(batch)
                    /\ job' = NextPass
    /\ UNCHANGED <<inbound, pay, sched, poolVars, matchVars, connVars,
                   distVars, keyword_rows, replies, rtask, sweep, synced,
                   on_delete, mstart, users, groups, now, _bot, received,
                   shared_messages, orders, notifications, syncs>>

\* _send_notification up to the send: OrderCRUD.create_order in a session of
\* its own (response_text is set).  Its failure is caught by the except of
\* _send_notification and nothing is sent.
NotifyOrder(fault) ==
    /\ job.pc = "dispatch_loop"
    /\ batch.pc = "order"
    /\ IF fault
       THEN /\ batch' = EndPass([batch EXCEPT !.faulted = @ \cup {Pair}])
            /\ job' = NextPass
            /\ UNCHANGED orders
       ELSE /\ orders' = Append(orders, Made)
            /\ batch' = [batch EXCEPT !.pc = "send"]
            /\ UNCHANGED job
    /\ UNCHANGED <<inbound, pay, sched, poolVars, matchVars, connVars,
                   distVars, keyword_rows, replies, rtask, sweep, synced,
                   on_delete, mstart, users, groups, now, _bot, received,
                   shared_messages, deliveries, notifications, syncs>>

\* self._bot.send_message returns or raises; the except of _send_notification
\* logs the failure and the pass is over.
NotifySend(ok) ==
    /\ job.pc = "dispatch_loop"
    /\ batch.pc = "send"
    /\ batch' = EndPass([batch EXCEPT
                            !.attempts = Append(@, [pair |-> Pair, ok |-> ok]),
                            !.faulted = IF ok THEN @ ELSE @ \cup {Pair}])
    /\ notifications' = IF ok THEN Append(notifications, Made)
                        ELSE notifications
    /\ job' = NextPass
    /\ UNCHANGED <<inbound, pay, sched, poolVars, matchVars, connVars,
                   distVars, keyword_rows, replies, rtask, sweep, synced,
                   on_delete, mstart, users, groups, now, _bot, received,
                   shared_messages, deliveries, orders, syncs>>

\* ---- per-user mode: process_group_message (bot/handlers/monitoring.py)

\* The client of user u hands over a message of chat c; the handler reads the
\* user and returns unless monitoring is enabled, the subscription is active
\* and the user's filters match.
PgmUserJob(u, c, t) ==
    LET p == MessageParser(UserKeywords(u), UserCities(u))
        goes_on == /\ users[u].monitoring_enabled
                   /\ is_subscription_active(users[u])
                   /\ check_message(p, t).is_match
    IN  IF goes_on
        THEN [IdleJob EXCEPT !.pc = "pgm_groups",
                             !.telegram_group_id = c,
                             !.message_id = received + 1,
                             !.message_text = t,
                             !.user = u,
                             !.at_read = Facts(u, c)]
        ELSE IdleJob

PgmUser(u, c, t) ==
    /\ job.pc = "idle"
    /\ received < MaxMsgs
    /\ received' = received + 1
    /\ job' = PgmUserJob(u, c, t)
    /\ UNCHANGED <<botVars, poolVars, matchVars, connVars, distVars,
                   users, groups, now, _bot, shared_messages,
                   deliveries, orders, notifications, syncs>>

\* get_enabled_groups, then OrderCRUD.create_order and bot.send_message when
\* the chat is among them.  The row notes the user's flags as they were read
\* and whether the chat is enabled now.
PgmOrder ==
    /\ job.pc = "pgm_groups"
    /\ LET u == job.user
           db_group == {g \in get_enabled_groups(u) :
                           groups[g].telegram_group_id = job.telegram_group_id}
           made == [user_id |-> u,
                    telegram_group_id |-> job.telegram_group_id,
                    message_id |-> job.message_id,
                    shared_message_id |-> None,
                    mode |-> "per_user",
                    created_at |-> now,
                    at |-> [job.at_read EXCEPT !.chat_enabled =
                               Facts(u, job.telegram_group_id).chat_enabled]]
       IN  /\ orders' = IF db_group # {} THEN Append(orders, made) ELSE orders
           /\ notifications' = IF db_group # {} THEN Append(notifications, made)
                               ELSE notifications
    /\ job' = IdleJob
    /\ UNCHANGED <<botVars, poolVars, matchVars, connVars, distVars,
                   users, groups, now, _bot, received,
                   shared_messages, deliveries, syncs>>

\* ---- GroupCRUD.sync_groups, called by the groups_refresh handler

\* The groups rows of user u for chat c.  A chat has one name, so these are
\* also the rows of u that share that name.
RowsOf(u, c) ==
    {g \in GroupIds : groups[g].user_id = u /\ groups[g].telegram_group_id = c}

\* The row sync_groups keeps among rows of one name: the first in the order
\* is_enabled desc, group_name; rows that tie differ only in their id.
Kept(rows) ==
    LET best == IF \E g \in rows : groups[g].is_enabled
                THEN {g \in rows : groups[g].is_enabled} ELSE rows
    IN  CHOOSE g \in best : \A h \in best : g <= h

\* A new row takes the smallest id not in use.
NewGroupId ==
    CHOOSE g \in GroupIds : groups[g] = NoGroup /\
        \A h \in GroupIds : groups[h] = NoGroup => g <= h

\* sync_groups(user_id, telegram_groups) up to its first commit: the rows that
\* repeat a name are deleted.  The dialogs of a user are all chats.
SyncBegin(s, u) ==
    /\ syncs[s].pc = "idle"
    /\ groups' = [g \in GroupIds |->
                     IF /\ groups[g].user_id = u
                        /\ g # Kept(RowsOf(u, groups[g].telegram_group_id))
                     THEN NoGroup ELSE groups[g]]
    /\ syncs' = [syncs EXCEPT ![s] = [pc |-> "select", user_id |-> u,
                                      todo |-> Sorted(Chats), group |-> None]]
    /\ UNCHANGED <<botVars, poolVars, matchVars, connVars, distVars,
                   users, now, _bot, received,
                   shared_messages, deliveries, orders, notifications, job>>

\* add_or_update: the select.  scalar_one_or_none raises when it finds more
\* than one row, which ends the handler.
AddOrUpdateSelect(s) ==
    /\ syncs[s].pc = "select"
    /\ LET rows == RowsOf(syncs[s].user_id, Head(syncs[s].todo))
       IN  syncs' = [syncs EXCEPT ![s] =
                        IF Cardinality(rows) > 1 THEN IdleSync
                        ELSE [@ EXCEPT !.pc = "commit",
                                       !.group = IF rows = {} THEN None
                                                 ELSE CHOOSE g \in rows : TRUE]]
    /\ UNCHANGED <<botVars, poolVars, matchVars, connVars, distVars,
                   users, groups, now, _bot, received,
                   shared_messages, deliveries, orders, notifications, job>>

\* add_or_update: `session.add(group)` for a chat the select did not find (a
\* found row only has its name refreshed), and the commit.
AddOrUpdateCommit(s) ==
    /\ syncs[s].pc = "commit"
    /\ IF syncs[s].group = None
       THEN /\ \E g \in GroupIds : groups[g] = NoGroup
            /\ groups' = [groups EXCEPT ![NewGroupId] =
                             Group(syncs[s].user_id, Head(syncs[s].todo), FALSE)]
       ELSE UNCHANGED groups
    /\ syncs' = [syncs EXCEPT ![s] =
                    IF Len(@.todo) = 1 THEN IdleSync
                    ELSE [@ EXCEPT !.pc = "select", !.todo = Tail(@.todo),
                                   !.group = None]]
    /\ UNCHANGED <<botVars, poolVars, matchVars, connVars, distVars,
                   users, now, _bot, received,
                   shared_messages, deliveries, orders, notifications, job>>

\* The tables before any user exists.
NoUsers == [u \in Users |-> User(FALSE, FALSE, None)]
NoGroups == [g \in GroupIds |-> NoGroup]
NoSyncs == [s \in Syncs |-> IdleSync]

\* -------------------------------------------------------------- Connection
\* UserBotClient (userbot/client.py) and SharedWorkerClient
\* (userbot/shared_pool.py).  The behaviour follows the Connection of one
\* owner: the user, or the worker, with id Owner.
Owner == 1

\* The Telegram account id of user k: user_telegram_id is not user_db_id.
user_telegram_id(k) == 100 + k

\* pyrogram.enums.ChatType
ChatTypes == {"private", "bot", "group", "supergroup", "channel"}

\* An inbound pyrogram Message: from_user is None for an anonymous post, text
\* is None for a message without text.
Authors == {None, user_telegram_id(Owner), user_telegram_id(Owner + 1)}
TextFields == {Nothing, Some(<<>>), Some(<<"cy_t">>)}
Messages ==
    [chat_type : ChatTypes, chat_id : Watched, from_user : Authors,
     text : TextFields]

\* A group_assignments row as GroupAssignmentCRUD.assign_group creates it.
GroupAssignment(worker_id, telegram_group_id) ==
    [worker_id |-> worker_id, telegram_group_id |-> telegram_group_id,
     is_active |-> TRUE]

\* GroupAssignmentCRUD.get_worker_groups(worker_id), as chat ids.
get_worker_groups(k) ==
    {assignments[i].telegram_group_id :
        i \in {j \in 1..Len(assignments) :
                  assignments[j].worker_id = k /\ assignments[j].is_active}}

\* What _load_monitored_groups reads for the Connection of k: the chat ids of
\* the user's enabled groups, or of the worker's active assignments.
WatchTargets(k) ==
    IF kind = "user"
    THEN {groups[g].telegram_group_id : g \in get_enabled_groups(k)}
    ELSE get_worker_groups(k)

IdleRefresh == [pc |-> "idle", key |-> None, rows |-> {}]
NoHandled ==
    [msg |-> [chat_type |-> "private", chat_id |-> None, from_user |-> None,
              text |-> Nothing],
     called |-> FALSE, watch |-> {}, refreshing |-> FALSE, any |-> FALSE]
NoWatch == [k \in Owners |-> {}]
NoRefreshes == [r \in Refreshes |-> IdleRefresh]

\* self.monitored_groups = {...}: the name is bound to the set just built; an
\* update in place would add the rows to the set the handler reads.
ReplacedInPlace(old, rows) == old \cup rows
Replaced(old, rows) == rows

\* refresh_groups -> _load_monitored_groups: the query is awaited ...
LoadQuery(r, k) ==
    /\ refresh[r].pc = "idle"
    /\ refresh' = [refresh EXCEPT ![r] =
                      [pc |-> "read", key |-> k, rows |-> WatchTargets(k)]]
    /\ loaded' = loaded \cup {WatchTargets(k)}
    /\ UNCHANGED <<botVars, poolVars, matchVars, dbVars, distVars, monitored_groups,
                   handled>>

\* ... and when it has returned the watch-list is assigned.
LoadAssign(r) ==
    /\ refresh[r].pc = "read"
    /\ monitored_groups' =
           [monitored_groups EXCEPT ![refresh[r].key] =
               Replaced(@, refresh[r].rows)]
    /\ refresh' = [refresh EXCEPT ![r] = IdleRefresh]
    /\ UNCHANGED <<botVars, poolVars, matchVars, dbVars, distVars, handled, loaded>>

\* The filters of _handle_message, in the order of its early returns.
IsGroupChat(m) == m.chat_type \in {"group", "supergroup"}
InWatchListAlways(m, k) == TRUE
InWatchList(m, k) == m.chat_id \in monitored_groups[k]
FromOwner(m, k) ==
    kind = "user" /\ m.from_user # None /\ m.from_user = user_telegram_id(k)

\* TRUE iff _handle_message of the Connection of k awaits on_message_callback.
_handle_message(k, m) ==
    IF ~IsGroupChat(m) THEN FALSE
    ELSE IF ~InWatchList(m, k) THEN FALSE
    ELSE IF FromOwner(m, k) THEN FALSE
    ELSE IF Falsy(m.text) THEN FALSE
    ELSE TRUE

\* pyrogram hands message m to the handler of the owner's Connection.  The
\* handler runs for every message of the session; received counts up to
\* MaxMsgs and stays there.
HandleMessage(m) ==
    /\ received' = IF received < MaxMsgs THEN received + 1 ELSE received
    /\ handled' = [msg |-> m, called |-> _handle_message(Owner, m),
                   watch |-> monitored_groups[Owner],
                   refreshing |-> \E r \in Refreshes : refresh[r].pc = "read",
                   any |-> TRUE]
    /\ UNCHANGED <<botVars, poolVars, matchVars, distVars, monitored_groups, refresh,
                   loaded, users, groups, now, _bot, shared_messages,
                   deliveries, orders, notifications, job, syncs>>

\* GroupAssignmentCRUD.unassign_group(telegram_group_id)
unassign_group(c) ==
    /\ kind = "shared"
    /\ assignments' = SelectSeq(assignments,
                                LAMBDA a : a.telegram_group_id # c)
    /\ UNCHANGED <<botVars, poolVars, matchVars, dbVars, connVars, workers, dtask>>

\* The group_toggle handler: GroupCRUD.toggle_group and nothing else that
\* changes state.
group_toggle(g) ==
    /\ kind = "user"
    /\ toggle_group(g)

\* groups_bulk_enable_process: toggle_group for every matched group that is
\* not enabled yet; S is the set of the owner's groups the names matched.
groups_bulk_enable_process(S) ==
    /\ kind = "user"
    /\ \E g \in S : ~groups[g].is_enabled
    /\ groups' = [g \in GroupIds |->
                     IF g \in S THEN [groups[g] EXCEPT !.is_enabled = TRUE]
                     ELSE groups[g]]
    /\ UNCHANGED <<botVars, poolVars, matchVars, connVars, distVars, users, now, _bot,
                   received, shared_messages, deliveries, orders,
                   notifications, job, syncs>>

\* The groups rows of the Connection's owner.
OwnerGroups == {g \in GroupIds : groups[g].user_id = Owner}

\* -------------------------------------------------------- GroupDistributor
\* userbot/shared_pool.py GroupDistributor with the CRUD calls it makes
\* (bot/database/crud.py MonitorWorkerCRUD, GroupAssignmentCRUD), one step per
\* committed statement or query.  The worker ids are Owners; a worker's
\* is_active is worker_status[k].is_active, the running workers are the keys
\* of clients.

\* A monitor_workers row: name is the worker's place in the order of names.
MonitorWorker(name, max_groups) == [name |-> name, max_groups |-> max_groups]

\* A groups row with its group_name column, which the distributor reads.
NamedGroup(user_id, telegram_group_id, is_enabled, group_name) ==
    [user_id |-> user_id, telegram_group_id |-> telegram_group_id,
     is_enabled |-> is_enabled, group_name |-> group_name]

\* Every order of the members of S: a query without ORDER BY.
Perms(S) ==
    {q \in [1..Cardinality(S) -> S] :
        \A i, j \in 1..Cardinality(S) : i # j => q[i] # q[j]}

\* MonitorWorkerCRUD.get_active: the ids of the active workers, by name.
get_active ==
    LET A == {k \in Owners : worker_status[k].is_active}
        F[T \in SUBSET A] ==
            IF T = {} THEN <<>>
            ELSE LET m == CHOOSE x \in T :
                              \A y \in T : workers[x].name <= workers[y].name
                 IN  <<m>> \o F[T \ {m}]
    IN  F[A]

\* The query of redistribute_groups: SELECT DISTINCT telegram_group_id,
\* group_name over the enabled groups of users with monitoring enabled and
\* subscription_end > utcnow().
groups_to_monitor ==
    {<<groups[g].telegram_group_id, groups[g].group_name>> :
        g \in {h \in GroupIds :
                  /\ groups[h] # NoGroup
                  /\ groups[h].is_enabled
                  /\ users[groups[h].user_id].monitoring_enabled
                  /\ is_subscription_active(users[groups[h].user_id])}}

\* GroupAssignmentCRUD.get_by_group_id before scalar_one_or_none: the
\* positions of the active rows of the chat.
get_by_group_id(c) ==
    {i \in 1..Len(assignments) :
        assignments[i].telegram_group_id = c /\ assignments[i].is_active}

\* len(list(result.scalars().all())) in get_worker_with_least_groups.
count(k) ==
    Cardinality({i \in 1..Len(assignments) :
                    assignments[i].worker_id = k /\ assignments[i].is_active})

\* The comparison that keeps a worker as best_worker.
IsBetterOrEqual(c, min_count, max_groups) == c <= min_count /\ c < max_groups
IsBetter(c, min_count, max_groups) == c < min_count /\ c < max_groups

\* MonitorWorkerCRUD.get_worker_with_least_groups: the loop over the active
\* workers; None for no worker.
get_worker_with_least_groups ==
    LET ws == get_active
        F[i \in 0..Len(ws)] ==
            IF i = 0 THEN [min_count |-> Len(assignments) + 1,
                           best_worker |-> None]
            ELSE IF IsBetter(count(ws[i]), F[i - 1].min_count,
                             workers[ws[i]].max_groups)
                 THEN [min_count |-> count(ws[i]), best_worker |-> ws[i]]
                 ELSE F[i - 1]
    IN  F[Len(ws)].best_worker

\* list(self._workers...) in dict order.
RunningWorkers == Sorted({k \in Owners : clients[k] # None})

IdleDist ==
    [pc |-> "idle", op |-> "none", worker_ids |-> <<>>, todo |-> <<>>,
     i |-> 0, chat |-> None, worker |-> None, rtodo |-> <<>>, rows |-> {},
     ret |-> None, before |-> <<>>, watch_before |-> NoWatch]
NoDistTasks == [t \in Tasks |-> IdleDist]
NoWorkers == [k \in Owners |-> MonitorWorker(k, 0)]

\* scalar_one_or_none found several rows: MultipleResultsFound leaves the call.
DistRaise(t) == [dtask[t] EXCEPT !.pc = "raised"]

\* What follows assign_group in the caller.
AfterAssign(t, d) ==
    IF d.op = "redistribute"
    THEN IF d.i < Len(d.todo)
         THEN [d EXCEPT !.pc = "assign_check", !.chat = d.todo[d.i + 1][1],
                        !.worker = d.worker_ids[(d.i % Len(d.worker_ids)) + 1]]
         ELSE IF RunningWorkers = <<>>
              THEN [d EXCEPT !.pc = "done"]
              ELSE [d EXCEPT !.pc = "refresh", !.rtodo = RunningWorkers]
    ELSE IF clients[d.worker] # None
         THEN [d EXCEPT !.pc = "refresh", !.rtodo = <<d.worker>>,
                        !.ret = d.worker]
         ELSE [d EXCEPT !.pc = "done", !.ret = d.worker]

\* redistribute_groups: get_active; no active worker ends the call.
RedistributeWorkers(t) ==
    /\ dtask[t].pc = "idle"
    /\ dtask' = [dtask EXCEPT ![t] =
                    IF get_active = <<>>
                    THEN [@ EXCEPT !.pc = "done", !.op = "redistribute",
                                   !.before = assignments,
                                   !.watch_before = monitored_groups]
                    ELSE [@ EXCEPT !.pc = "r_groups", !.op = "redistribute",
                                   !.worker_ids = get_active,
                                   !.before = assignments,
                                   !.watch_before = monitored_groups]]
    /\ UNCHANGED <<botVars, poolVars, matchVars, dbVars, connVars, assignments, workers>>

\* The groups query; no group ends the call.
RedistributeQuery(t) ==
    /\ dtask[t].pc = "r_groups"
    /\ \E q \in Perms(groups_to_monitor) :
           dtask' = [dtask EXCEPT ![t] =
                        IF q = <<>> THEN [@ EXCEPT !.pc = "done"]
                        ELSE [@ EXCEPT !.pc = "r_delete", !.todo = q]]
    /\ UNCHANGED <<botVars, poolVars, matchVars, dbVars, connVars, assignments, workers>>

\* delete(GroupAssignment) and commit, then the loop's first assign_group.
RedistributeDelete(t) ==
    /\ dtask[t].pc = "r_delete"
    /\ assignments' = <<>>
    /\ dtask' = [dtask EXCEPT ![t] = AfterAssign(t, [@ EXCEPT !.i = 0])]
    /\ UNCHANGED <<botVars, poolVars, matchVars, dbVars, connVars, workers>>

\* `if existing:` in assign_new_group, for the rows get_by_group_id found.
AlreadyAssignedNever(e) == FALSE
AlreadyAssigned(e) == e # {}

\* assign_new_group: get_by_group_id; an assigned chat ends the call.
NewGroupCheck(t, c) ==
    /\ dtask[t].pc = "idle"
    /\ LET d == [dtask[t] EXCEPT !.op = "assign_new_group", !.chat = c,
                                 !.before = assignments,
                                 !.watch_before = monitored_groups]
           e == get_by_group_id(c)
       IN  dtask' = [dtask EXCEPT ![t] =
                        IF Cardinality(e) > 1 THEN [d EXCEPT !.pc = "raised"]
                        ELSE IF AlreadyAssigned(e)
                        THEN [d EXCEPT !.pc = "done",
                                 !.ret = assignments[CHOOSE i \in e : TRUE]
                                             .worker_id]
                        ELSE [d EXCEPT !.pc = "n_pick"]]
    /\ UNCHANGED <<botVars, poolVars, matchVars, dbVars, connVars, assignments, workers>>

\* assign_new_group: get_worker_with_least_groups; no worker ends the call.
NewGroupPick(t) ==
    /\ dtask[t].pc = "n_pick"
    /\ dtask' = [dtask EXCEPT ![t] =
                    IF get_worker_with_least_groups = None
                    THEN [@ EXCEPT !.pc = "done", !.ret = None]
                    ELSE [@ EXCEPT !.pc = "assign_check",
                                   !.worker = get_worker_with_least_groups]]
    /\ UNCHANGED <<botVars, poolVars, matchVars, dbVars, connVars, assignments, workers>>

\* The insert of assign_group; the group_assignments table is taken to have
\* no unique constraint on telegram_group_id.
InsertAssignment(worker_id, telegram_group_id) ==
    Append(assignments, GroupAssignment(worker_id, telegram_group_id))

\* GroupAssignmentCRUD.assign_group: get_by_group_id; an assigned chat is
\* returned as it is and nothing is inserted.
AssignCheck(t) ==
    /\ dtask[t].pc = "assign_check"
    /\ LET e == get_by_group_id(dtask[t].chat)
           d == [dtask[t] EXCEPT !.i = @ + 1]
       IN  dtask' = [dtask EXCEPT ![t] =
                        IF Cardinality(e) > 1 THEN DistRaise(t)
                        ELSE IF e # {} THEN AfterAssign(t, d)
                        ELSE [@ EXCEPT !.pc = "assign_insert"]]
    /\ UNCHANGED <<botVars, poolVars, matchVars, dbVars, connVars, assignments, workers>>

\* GroupAssignmentCRUD.assign_group: session.add and commit.
AssignInsert(t) ==
    /\ dtask[t].pc = "assign_insert"
    /\ assignments' = InsertAssignment(dtask[t].worker, dtask[t].chat)
    /\ dtask' = [dtask EXCEPT ![t] = AfterAssign(t, [@ EXCEPT !.i = @ + 1])]
    /\ UNCHANGED <<botVars, poolVars, matchVars, dbVars, connVars, workers>>

\* refresh_all_groups / refresh_worker_groups: the next worker's
\* _load_monitored_groups awaits its query ...
RefreshQuery(t) ==
    /\ dtask[t].pc = "refresh"
    /\ dtask' = [dtask EXCEPT ![t].pc = "refresh_assign",
                              ![t].rows = get_worker_groups(dtask[t].rtodo[1])]
    /\ UNCHANGED <<botVars, poolVars, matchVars, dbVars, connVars, assignments, workers>>

\* ... and assigns the watch-list.
RefreshAssign(t) ==
    /\ dtask[t].pc = "refresh_assign"
    /\ monitored_groups' =
           [monitored_groups EXCEPT ![dtask[t].rtodo[1]] =
               Replaced(@, dtask[t].rows)]
    /\ dtask' = [dtask EXCEPT ![t].rtodo = Tail(@),
                              ![t].pc = IF Len(dtask[t].rtodo) > 1
                                        THEN "refresh" ELSE "done"]
    /\ UNCHANGED <<botVars, poolVars, matchVars, dbVars, assignments, workers, refresh,
                   handled, loaded>>

\* ------------------------------------------------------------- order_take
\* bot/handlers/monitoring.py order_take with OrderCRUD.get_by_id and
\* OrderCRUD.mark_responded (bot/database/crud.py), one step per stretch of
\* code between two awaits that read or write the database or send a message.

\* An orders row as OrderCRUD.create_order makes it: responded defaults to
\* false.
Order(user_id, telegram_group_id, message_id) ==
    [user_id |-> user_id, telegram_group_id |-> telegram_group_id,
     message_id |-> message_id, responded |-> FALSE]

\* The ids a callback can carry: those of the rows and one of no row.
OrderIds == 1..(NumOrders + 1)

\* after: the call began when an earlier call for the same order had sent its
\* reply and marked the order; sent, wrote: what this call has sent and
\* written so far.
IdleRespond ==
    [pc |-> "idle", user |-> None, order_id |-> None, after |-> FALSE,
     sent |-> 0, wrote |-> FALSE, ret |-> "none"]
NoRespondTasks == [t \in Tasks |-> IdleRespond]

\* The calls for order o that sent the reply and returned from mark_responded.
Succeeded(o) ==
    {t \in Tasks : rtask[t].order_id = o /\ rtask[t].ret = "taken"}

\* The callback arrives from user u with order id o; get_by_telegram_id is
\* read and the handler returns when the user has no session_string.
TakeBegin(t, u, o) ==
    /\ rtask[t].pc = "idle"
    /\ rtask[t].ret = "none"
    /\ rtask' = [rtask EXCEPT ![t] =
                    IF ~users[u].session_string
                    THEN [IdleRespond EXCEPT !.user = u, !.order_id = o,
                                             !.after = Succeeded(o) # {},
                                             !.ret = "no_session"]
                    ELSE [IdleRespond EXCEPT !.pc = "get_order", !.user = u,
                                             !.order_id = o,
                                             !.after = Succeeded(o) # {}]]
    /\ UNCHANGED <<inbound, pay, sched, batch, poolVars, matchVars, dbVars,
                   connVars, distVars, keyword_rows, replies, sweep, synced,
                   on_delete, mstart>>

\* `if order.responded: ... return`
AlreadyRespondedNever(order) == FALSE
AlreadyResponded(order) == order.responded

\* OrderCRUD.get_by_id and the two early returns: no such order, and an order
\* that is responded already.
TakeGetOrder(t) ==
    /\ rtask[t].pc = "get_order"
    /\ LET o == rtask[t].order_id
       IN  rtask' = [rtask EXCEPT ![t] =
                        IF o > Len(orders)
                        THEN [@ EXCEPT !.pc = "idle", !.ret = "not_found"]
                        ELSE IF AlreadyResponded(orders[o])
                        THEN [@ EXCEPT !.pc = "idle", !.ret = "already"]
                        ELSE [@ EXCEPT !.pc = "send"]]
    /\ UNCHANGED <<inbound, pay, sched, batch, poolVars, matchVars, dbVars,
                   connVars, distVars, keyword_rows, replies, sweep, synced,
                   on_delete, mstart>>

\* client.send_message of the user's running client, or send_reply of a
\* temporary UserBotService, returns: the reply is in the chat.
TakeSendOk(t) ==
    /\ rtask[t].pc = "send"
    /\ LET order == orders[rtask[t].order_id]
       IN  replies' = Append(replies,
                             [order_id |-> rtask[t].order_id,
                              chat_id |-> order.telegram_group_id,
                              reply_to_message_id |-> order.message_id,
                              from_user |-> rtask[t].user,
                              pooled |-> is_running(rtask[t].user)])
    /\ rtask' = [rtask EXCEPT ![t].pc = "mark", ![t].sent = @ + 1]
    /\ UNCHANGED <<inbound, pay, sched, batch, poolVars, matchVars, dbVars,
                   connVars, distVars, keyword_rows, sweep, synced, on_delete,
                   mstart>>

\* `except Exception as e:` of order_take: the try block holds the send and
\* mark_responded after it, so a send that raises skips mark_responded; the
\* error is reported and the handler ends.
SendRaisedThenMark(r) == [r EXCEPT !.pc = "mark"]
SendRaised(r) == [r EXCEPT !.pc = "idle", !.ret = "error"]

\* It raised: client.send_message, or send_reply after its last chat id.
TakeSendRaise(t) ==
    /\ rtask[t].pc = "send"
    /\ rtask' = [rtask EXCEPT ![t] = SendRaised(@)]
    /\ UNCHANGED <<inbound, pay, sched, batch, poolVars, matchVars, dbVars,
                   connVars, distVars, keyword_rows, replies, sweep, synced,
                   on_delete, mstart>>

\* OrderCRUD.mark_responded(order_id) commits.
TakeMarkOk(t) ==
    /\ rtask[t].pc = "mark"
    /\ orders' = [orders EXCEPT ![rtask[t].order_id].responded = TRUE]
    /\ rtask' = [rtask EXCEPT ![t].pc = "idle", ![t].ret = "taken",
                              ![t].wrote = TRUE]
    /\ UNCHANGED <<inbound, pay, sched, batch, poolVars, matchVars, connVars,
                   distVars, keyword_rows, replies, sweep, synced, on_delete,
                   mstart, users, groups, now, _bot, received,
                   shared_messages, deliveries, notifications, job, syncs>>

\* It raised: the reply is sent and the order is not marked.
TakeMarkRaise(t) ==
    /\ rtask[t].pc = "mark"
    /\ rtask' = [rtask EXCEPT ![t].pc = "idle", ![t].ret = "error"]
    /\ UNCHANGED <<inbound, pay, sched, batch, poolVars, matchVars, dbVars,
                   connVars, distVars, keyword_rows, replies, sweep, synced,
                   on_delete, mstart>>

\* ------------------------------------------------- the bot's flag handlers
\* bot/handlers/monitoring.py monitoring_start, bot/handlers/keywords.py and
\* the KeywordCRUD calls they make.

\* The keywords table before any keyword is added.
KeywordIds == 1..MaxKeywords
NoKeywords == [u \in Users |-> {}]

\* pc: where the monitoring_start handler of the user is; stop: where the
\* monitoring_stop handler is.
IdleStart == [pc |-> "idle", stop |-> "idle"]
NoStarts == [u \in Users |-> IdleStart]

\* The parameters of an on_message_callback: those it requires and those it
\* takes beyond them.  monitoring_start.message_callback has user_tg_id,
\* group_id, group_name, msg_id and msg_text; the one of
\* start_active_userbots has a sixth, pyrogram_message=None.
StartCallback == [required |-> 5, optional |-> 0]
RecoveryCallback == [required |-> 5, optional |-> 1]

\* _handle_message calls the callback with user_telegram_id, chat.id, the
\* title, message.id, message.text and the message.
PassedArgs == 6

\* A call with n positional arguments binds to the parameters; a call that
\* does not raises TypeError before the callback's body runs.
Binds(callback, n) ==
    callback.required <= n /\ n <= callback.required + callback.optional

\* The UserBotClient that start_client built with the callback, started and
\* registered.
Registered(callback) ==
    [built |-> TRUE, _running |-> TRUE, on_message_callback |-> callback]

\* startup: where on_startup's start_active_userbots is; todo: the users it
\* has still to start; passed: the messages that passed a Connection's
\* filters, each with whether process_group_message ran for it.
NoInbound == [startup |-> "idle", todo |-> <<>>, passed |-> <<>>]

\* One payment of one user.  gateway: the status the payment system reports;
\* row: payments.status; pending: whether payment_manager.pending_payments
\* holds the user's entry; webhook, poller, manual: where the webhook route,
\* _check_pending_payments and subscription_check are; extensions: how many
\* times the subscription was extended for this payment.
NoPayment ==
    [user_id |-> None, gateway |-> "none", row |-> "none", pending |-> FALSE,
     webhook |-> "idle", poller |-> "idle", manual |-> "idle",
     extensions |-> 0]

\* KeywordCRUD.add_keyword(user_id, word)
add_keyword(u, k) ==
    /\ k \notin keyword_rows[u]
    /\ keyword_rows' = [keyword_rows EXCEPT ![u] = @ \cup {k}]
    /\ UNCHANGED <<inbound, pay, sched, batch, poolVars, matchVars, dbVars,
                   connVars, distVars, replies, rtask, sweep, synced,
                   on_delete, mstart>>

\* keyword_confirm_delete: KeywordCRUD.delete_keyword(keyword_id), then the
\* keyboard is drawn again.
keyword_confirm_delete(u, k) ==
    /\ k \in keyword_rows[u]
    /\ keyword_rows' = [keyword_rows EXCEPT ![u] = @ \ {k}]
    /\ UNCHANGED <<inbound, pay, sched, batch, poolVars, matchVars, dbVars,
                   connVars, distVars, replies, rtask, sweep, synced,
                   on_delete, mstart>>

\* keyword_confirm_delete_all: KeywordCRUD.delete_all_keywords(user_id).
keyword_confirm_delete_all(u) ==
    /\ keyword_rows' = [keyword_rows EXCEPT ![u] = {}]
    /\ UNCHANGED <<inbound, pay, sched, batch, poolVars, matchVars, dbVars,
                   connVars, distVars, replies, rtask, sweep, synced,
                   on_delete, mstart>>

\* The tests of monitoring_start before it enables monitoring: the stored
\* session, the subscription, the enabled groups and the keywords.
MayStart(u) ==
    /\ users[u].session_string
    /\ is_subscription_active(users[u])
    /\ get_enabled_groups(u) # {}
    /\ keyword_rows[u] # {}

\* monitoring_start up to UserCRUD.toggle_monitoring: the reads and the early
\* returns.
MonitoringStartRead(u) ==
    /\ mstart[u].pc = "idle"
    /\ mstart' = [mstart EXCEPT ![u].pc = IF MayStart(u) THEN "set" ELSE "idle"]
    /\ UNCHANGED <<inbound, pay, sched, batch, poolVars, matchVars, dbVars,
                   connVars, distVars, keyword_rows, replies, rtask, sweep,
                   synced, on_delete>>

\* UserCRUD.toggle_monitoring(user.id, True) commits.
MonitoringStartSet(u) ==
    /\ mstart[u].pc = "set"
    /\ users' = [users EXCEPT ![u].monitoring_enabled = TRUE]
    /\ mstart' = [mstart EXCEPT ![u].pc = "client"]
    /\ UNCHANGED <<inbound, pay, sched, batch, poolVars, matchVars, connVars,
                   distVars, keyword_rows, replies, rtask, sweep, synced,
                   on_delete, groups, now, _bot, received, shared_messages,
                   deliveries, orders, notifications, job, syncs>>

\* The rest of monitoring_start: with a bot and no running client,
\* userbot_pool.start_client, which registers a started client or fails; a
\* failure switches monitoring off again.
MonitoringStartClient(u, success) ==
    /\ mstart[u].pc = "client"
    /\ mstart' = [mstart EXCEPT ![u].pc = "idle"]
    /\ IF ~_bot \/ is_running(u)
       THEN UNCHANGED <<users, clients, conn, monitored_groups>>
       ELSE IF success
       THEN /\ clients' = [clients EXCEPT ![u] = 1]
            /\ conn' = [conn EXCEPT ![u][1] = Registered(StartCallback)]
            /\ monitored_groups' =
                   [monitored_groups EXCEPT ![u] = WatchTargets(u)]
            /\ UNCHANGED users
       ELSE /\ users' = [users EXCEPT ![u].monitoring_enabled = FALSE]
            /\ UNCHANGED <<clients, conn, monitored_groups>>
    /\ UNCHANGED <<inbound, pay, sched, batch, matchVars, distVars, refresh,
                   handled, loaded, keyword_rows, replies, rtask, sweep,
                   synced, on_delete, kind, lock, task, last, worker_status,
                   groups, now, _bot, received, shared_messages, deliveries,
                   orders, notifications, job, syncs>>

\* monitoring_stop up to its await of the pool: get_by_telegram_id, and
\* UserCRUD.toggle_monitoring(user.id, False) commits.
MonitoringStopSet(u) ==
    /\ mstart[u].stop = "idle"
    /\ users' = [users EXCEPT ![u].monitoring_enabled = FALSE]
    /\ mstart' = [mstart EXCEPT ![u].stop = "client"]
    /\ UNCHANGED <<inbound, pay, sched, batch, poolVars, matchVars, connVars,
                   distVars, keyword_rows, replies, rtask, sweep, synced,
                   on_delete, groups, now, _bot, received, shared_messages,
                   deliveries, orders, notifications, job, syncs>>

\* The rest of monitoring_stop: userbot_pool.stop_client(user.id) under the
\* pool's lock stops and deletes the registered client, or finds none.
MonitoringStopClient(u) ==
    /\ mstart[u].stop = "client"
    /\ mstart' = [mstart EXCEPT ![u].stop = "idle"]
    /\ IF is_running(u)
       THEN /\ clients' = [clients EXCEPT ![u] = None]
            /\ conn' = [conn EXCEPT ![u][clients[u]] = NoConn]
       ELSE UNCHANGED <<clients, conn>>
    /\ UNCHANGED <<inbound, pay, sched, batch, matchVars, dbVars, connVars,
                   distVars, keyword_rows, replies, rtask, sweep, synced,
                   on_delete, kind, lock, task, last, worker_status>>

\* ---- start_active_userbots and the callback of a per-user Connection
\* bot/main.py start_active_userbots, userbot/client.py
\* UserBotClient._handle_message.

\* UserCRUD.get_active_users_with_monitoring
get_active_users_with_monitoring ==
    {u \in Users : /\ users[u].is_active
                   /\ users[u].monitoring_enabled
                   /\ users[u].session_string
                   /\ is_subscription_active(users[u])}

\* on_startup reaches start_active_userbots, which reads the users to start.
StartupQuery ==
    /\ inbound.startup = "query"
    /\ LET active_users == Sorted(get_active_users_with_monitoring)
       IN  inbound' = [inbound EXCEPT
                          !.startup = IF active_users = <<>> THEN "done"
                                      ELSE "loop",
                          !.todo = active_users]
    /\ UNCHANGED <<pay, sched, batch, poolVars, matchVars, dbVars, connVars,
                   distVars, keyword_rows, replies, rtask, sweep, synced,
                   on_delete, mstart>>

\* One pass of its loop: start_client with the loop's own callback registers
\* a started client or returns False.
StartupUser(success) ==
    /\ inbound.startup = "loop"
    /\ LET u == Head(inbound.todo)
       IN  /\ inbound' = [inbound EXCEPT
                              !.startup = IF Len(inbound.todo) = 1 THEN "done"
                                          ELSE "loop",
                              !.todo = Tail(@)]
           /\ IF success /\ ~is_running(u)
              THEN /\ clients' = [clients EXCEPT ![u] = 1]
                   /\ conn' = [conn EXCEPT ![u][1] =
                                   Registered(RecoveryCallback)]
                   /\ monitored_groups' =
                          [monitored_groups EXCEPT ![u] = WatchTargets(u)]
              ELSE UNCHANGED <<clients, conn, monitored_groups>>
    /\ UNCHANGED <<pay, sched, batch, matchVars, dbVars, distVars, refresh,
                   handled, loaded, keyword_rows, replies, rtask, sweep,
                   synced, on_delete, mstart, kind, lock, task, last,
                   worker_status>>

\* pyrogram hands message m with text t to the Connection of user u and m
\* passes the filters of _handle_message: the callback is called with
\* PassedArgs arguments.  When they bind, process_group_message begins; when
\* they do not, the TypeError is caught and logged by _handle_message.
InboundMessage(u, m, t) ==
    /\ is_running(u)
    /\ conn[u][clients[u]]._running
    /\ job.pc = "idle"
    /\ _handle_message(u, m)
    /\ LET callback == conn[u][clients[u]].on_message_callback
           ran == Binds(callback, PassedArgs)
       IN  /\ inbound' = [inbound EXCEPT !.passed =
                              Append(@, [user |-> u, chat_id |-> m.chat_id,
                                         message_id |-> received + 1,
                                         callback |-> callback,
                                         ran |-> ran])]
           /\ job' = IF ran THEN PgmUserJob(u, m.chat_id, t) ELSE job
    /\ received' = received + 1
    /\ UNCHANGED <<pay, sched, batch, poolVars, matchVars, connVars, distVars,
                   keyword_rows, replies, rtask, sweep, synced, on_delete,
                   mstart, users, groups, now, _bot, shared_messages,
                   deliveries, orders, notifications, syncs>>

\* ------------------------------------------------------------ the payment
\* admin/routes/webhook.py (yukassa_webhook, confirm_payment,
\* activate_subscription), bot/services/scheduler.py _check_pending_payments
\* and bot/handlers/subscription.py subscription_check, for one payment that
\* subscription_buy created and put into pending_payments.

\* PaymentService.is_payment_successful for the status check_payment read.
is_payment_successful(status) == status = "succeeded"

\* The frame of a payment step that extends the subscription, and of one that
\* does not.
PayFrame ==
    UNCHANGED <<inbound, sched, batch, poolVars, matchVars, connVars, distVars,
                keyword_rows, replies, rtask, sweep, synced, on_delete,
                mstart, groups, now, _bot, received, shared_messages,
                deliveries, orders, notifications, job, syncs>>

\* UserCRUD.update_subscription / activate_subscription commits for the
\* payer: the end moves on by the configured days from itself or from now.
Extend ==
    users' = [users EXCEPT ![pay.user_id].subscription_end =
                 ExtendedEnd(users[pay.user_id])]

\* The customer pays: the payment system reports the payment as succeeded.
GatewaySucceeds ==
    /\ pay.gateway = "pending"
    /\ pay' = [pay EXCEPT !.gateway = "succeeded"]
    /\ UNCHANGED users
    /\ PayFrame

\* The webhook route gets payment.succeeded: confirm_payment updates the row
\* `WHERE ... AND status = 'pending'` and returns it, or returns None, and
\* then the route does nothing more.
WebhookConfirm ==
    /\ pay.webhook = "idle"
    /\ pay.gateway = "succeeded"
    /\ pay' = IF pay.row = "pending"
              THEN [pay EXCEPT !.row = "confirmed", !.webhook = "activate"]
              ELSE [pay EXCEPT !.webhook = "done"]
    /\ UNCHANGED users
    /\ PayFrame

\* activate_subscription: the update commits, or an exception rolls back and
\* None is returned.
WebhookActivate(ok) ==
    /\ pay.webhook = "activate"
    /\ pay' = [pay EXCEPT !.webhook = "done",
                          !.extensions = IF ok THEN @ + 1 ELSE @]
    /\ IF ok THEN Extend ELSE UNCHANGED users
    /\ PayFrame

\* One pass of _check_pending_payments over the copied pending_payments:
\* check_payment, and the session is opened when the status is successful.
PollCheck ==
    /\ pay.poller = "idle"
    /\ pay.pending
    /\ pay' = [pay EXCEPT !.poller = IF is_payment_successful(pay.gateway)
                                     THEN "extend" ELSE "idle"]
    /\ UNCHANGED users
    /\ PayFrame

\* UserCRUD.update_subscription(session, user.id, days) commits.
PollExtend ==
    /\ pay.poller = "extend"
    /\ pay' = [pay EXCEPT !.poller = "confirm", !.extensions = @ + 1]
    /\ Extend
    /\ PayFrame

\* PaymentCRUD.confirm_payment commits and remove_pending follows, or it
\* raises and the `except Exception` of the pass leaves the entry.
PollConfirm(ok) ==
    /\ pay.poller = "confirm"
    /\ pay' = IF ok
              THEN [pay EXCEPT !.poller = "idle", !.row = "confirmed",
                               !.pending = FALSE]
              ELSE [pay EXCEPT !.poller = "idle"]
    /\ UNCHANGED users
    /\ PayFrame

\* subscription_check, the button under the payment link: check_payment.
ManualCheck ==
    /\ pay.manual = "idle"
    /\ pay.gateway # "none"
    /\ pay' = [pay EXCEPT !.manual = IF is_payment_successful(pay.gateway)
                                     THEN "extend" ELSE "idle"]
    /\ UNCHANGED users
    /\ PayFrame

\* UserCRUD.update_subscription(session, user.id, settings["days"]) commits.
ManualExtend ==
    /\ pay.manual = "extend"
    /\ pay' = [pay EXCEPT !.manual = "confirm", !.extensions = @ + 1]
    /\ Extend
    /\ PayFrame

\* PaymentCRUD.confirm_payment commits and remove_pending follows, or it
\* raises and the handler ends.
ManualConfirm(ok) ==
    /\ pay.manual = "confirm"
    /\ pay' = IF ok
              THEN [pay EXCEPT !.manual = "idle", !.row = "confirmed",
                               !.pending = FALSE]
              ELSE [pay EXCEPT !.manual = "idle"]
    /\ UNCHANGED users
    /\ PayFrame

\* ------------------------------------------------------------ the scheduler
\* bot/services/scheduler.py SubscriptionScheduler: _cleanup_old_messages with
\* OrderDeliveryCRUD.cleanup_old and SharedGroupMessageCRUD.cleanup_old, one
\* step per committed statement.  GroupMessageCRUD.cleanup_old_messages comes
\* first and has nothing to delete: nothing in src/ adds a group_messages row.

\* timedelta(hours=24), in units of the clock: a dispatch takes less.
Retention == 2

\* delivered_before, created_before: the thresholds the two statements of the
\* sweep computed; raised: whether the second raised; expired: the users
\* deactivate_expired selected, at the time checked_at.
IdleSweep ==
    [pc |-> "idle", delivered_before |-> 0, created_before |-> 0,
     raised |-> FALSE, expired |-> {}, checked_at |-> 0]

\* A deleted row leaves its place in the table, so that ids stay positions.
Purged(row) == [purged |-> TRUE, created_at |-> row.created_at]
Live(table) == {i \in 1..Len(table) : "purged" \notin DOMAIN table[i]}

\* What the on_delete rule of order_deliveries.shared_message_id may be.
OnDeleteRules == {"cascade", "restrict", "none"}

\* OrderDeliveryCRUD.cleanup_old: delete where delivered_at < utcnow() - 24h.
CleanupDeliveries ==
    /\ sweep.pc = "idle"
    /\ LET threshold == now - Retention
       IN  /\ deliveries' =
                  [i \in 1..Len(deliveries) |->
                      IF i \in Live(deliveries) /\
                         deliveries[i].created_at < threshold
                      THEN Purged(deliveries[i]) ELSE deliveries[i]]
           /\ sweep' = [IdleSweep EXCEPT !.pc = "shared",
                                         !.delivered_before = threshold]
    /\ UNCHANGED <<inbound, pay, sched, batch, poolVars, matchVars, connVars,
                   distVars, keyword_rows, replies, rtask, synced, on_delete,
                   mstart, users, groups, now, _bot, received,
                   shared_messages, orders, notifications, job, syncs>>

\* SharedGroupMessageCRUD.cleanup_old: delete where created_at < utcnow() - 24h.
\* With a restricting foreign key the statement raises when a delivery still
\* refers to one of its rows, and _cleanup_old_messages logs the error; with
\* a cascading one those deliveries go too.
CleanupShared ==
    /\ sweep.pc = "shared"
    /\ LET threshold == now - Retention
           doomed == {i \in Live(shared_messages) :
                         shared_messages[i].created_at < threshold}
           referring == {i \in Live(deliveries) :
                            deliveries[i].shared_message_id \in doomed}
           raises == on_delete = "restrict" /\ referring # {}
       IN  /\ shared_messages' =
                  IF raises THEN shared_messages
                  ELSE [i \in 1..Len(shared_messages) |->
                           IF i \in doomed THEN Purged(shared_messages[i])
                           ELSE shared_messages[i]]
           /\ deliveries' =
                  IF on_delete = "cascade"
                  THEN [i \in 1..Len(deliveries) |->
                           IF i \in referring THEN Purged(deliveries[i])
                           ELSE deliveries[i]]
                  ELSE deliveries
           /\ sweep' = [sweep EXCEPT !.pc = "done",
                                     !.created_before = threshold,
                                     !.raised = raises]
    /\ UNCHANGED <<inbound, pay, sched, batch, poolVars, matchVars, connVars,
                   distVars, keyword_rows, replies, rtask, synced, on_delete,
                   mstart, users, groups, now, _bot, received, orders,
                   notifications, job, syncs>>

\* _cleanup_old_messages returns; _run sleeps until the next sweep.
CleanupReturn ==
    /\ sweep.pc = "done"
    /\ sweep' = IdleSweep
    /\ UNCHANGED <<inbound, pay, sched, batch, poolVars, matchVars, dbVars,
                   connVars, distVars, keyword_rows, replies, rtask, synced,
                   on_delete, mstart>>
\* ---- SubscriptionScheduler.start, stop and the two loops
\* _run sleeps an hour between iterations, _run_payment_checker 15 seconds.

Loops == {"hourly", "payments"}

\* task[l]: "none" before start(), "created" until the task first runs,
\* "iteration" inside the try of the loop with `left` awaits to go, "sleep"
\* in asyncio.sleep, "exited" when the coroutine has ended.  cancel[l]: the
\* task was cancelled and CancelledError is thrown into it at its next step.
\* stopped: stop() has returned and start() was not called since.
\* cancelled_in[l]: where the last cancellation met the task.
NoScheduler ==
    [_running |-> FALSE,
     task |-> [l \in Loops |-> "none"],
     left |-> [l \in Loops |-> 0],
     cancel |-> [l \in Loops |-> FALSE],
     stop |-> "idle",
     stopped |-> FALSE,
     cancelled_in |-> [l \in Loops |-> "none"]]

\* start(): nothing when already running, else both tasks are created.
SchedulerStart ==
    /\ sched.stop = "idle"
    /\ ~sched._running
    /\ sched' = [sched EXCEPT !._running = TRUE,
                              !.task = [l \in Loops |-> "created"],
                              !.left = [l \in Loops |-> 0],
                              !.cancel = [l \in Loops |-> FALSE],
                              !.stopped = FALSE,
                              !.cancelled_in = [l \in Loops |-> "none"]]
    /\ UNCHANGED <<inbound, pay, poolVars, matchVars, dbVars, connVars,
                   distVars, keyword_rows, replies, rtask, sweep, synced,
                   on_delete, mstart, batch>>

\* `except Exception` around the body of both loops: asyncio.CancelledError
\* derives from BaseException and passes through it.
CaughtByLoop(exc) == exc = "Exception"

\* `while self._running:` and the body up to its first await.  The payment
\* iteration returns at once when nothing is pending.
EnterLoop(s, l, awaits) ==
    IF ~s._running THEN [s EXCEPT !.task[l] = "exited"]
    ELSE IF awaits = 0 THEN [s EXCEPT !.task[l] = "sleep"]
    ELSE [s EXCEPT !.task[l] = "iteration", !.left[l] = awaits]

\* CancelledError is thrown into task l at the point `where`.
Cancelled(s, l, where) ==
    [s EXCEPT !.task[l] = "exited", !.left[l] = 0, !.cancel[l] = FALSE,
              !.cancelled_in[l] = where]

\* The task runs for the first time; a task cancelled before that never
\* enters its coroutine.
TaskFirstRun(l, awaits) ==
    /\ sched.task[l] = "created"
    /\ l = "hourly" => awaits > 0
    /\ sched' = IF sched.cancel[l] THEN Cancelled(sched, l, "created")
                ELSE EnterLoop(sched, l, awaits)
    /\ UNCHANGED <<inbound, pay, poolVars, matchVars, dbVars, connVars,
                   distVars, keyword_rows, replies, rtask, sweep, synced,
                   on_delete, mstart, batch>>

\* An await inside the iteration ends: it returns, it raises an exception
\* the loop catches and logs, or the cancellation arrives there.
IterationAwait(l, exc) ==
    /\ sched.task[l] = "iteration"
    /\ exc = "CancelledError" <=> sched.cancel[l]
    /\ sched' = IF exc = "none"
                THEN IF sched.left[l] = 1
                     THEN [sched EXCEPT !.task[l] = "sleep", !.left[l] = 0]
                     ELSE [sched EXCEPT !.left[l] = @ - 1]
                ELSE IF CaughtByLoop(exc)
                THEN [sched EXCEPT !.task[l] = "sleep", !.left[l] = 0]
                ELSE Cancelled(sched, l, "iteration")
    /\ UNCHANGED <<inbound, pay, poolVars, matchVars, dbVars, connVars,
                   distVars, keyword_rows, replies, rtask, sweep, synced,
                   on_delete, mstart, batch>>

\* asyncio.sleep ends: by the cancellation, or the loop tests _running again.
SleepDone(l, awaits) ==
    /\ sched.task[l] = "sleep"
    /\ l = "hourly" => awaits > 0
    /\ sched' = IF sched.cancel[l] THEN Cancelled(sched, l, "sleep")
                ELSE EnterLoop(sched, l, awaits)
    /\ UNCHANGED <<inbound, pay, poolVars, matchVars, dbVars, connVars,
                   distVars, keyword_rows, replies, rtask, sweep, synced,
                   on_delete, mstart, batch>>

\* task.cancel(): nothing on a task that has ended.
Cancel(s, l) ==
    IF s.task[l] = "exited" THEN s ELSE [s EXCEPT !.cancel[l] = TRUE]

\* `await self._task` goes on, by return or by the CancelledError that
\* stop() catches, once the task has ended.
TaskDoneAlways(l) == TRUE
TaskDone(l) == sched.task[l] = "exited"

\* stop() up to its first await; without tasks it returns.
StopBegin ==
    /\ sched.stop = "idle"
    /\ sched' = IF sched.task["hourly"] = "none"
                THEN [sched EXCEPT !._running = FALSE, !.stopped = TRUE]
                ELSE [Cancel(sched, "hourly") EXCEPT !._running = FALSE,
                                                     !.stop = "await_task"]
    /\ UNCHANGED <<inbound, pay, poolVars, matchVars, dbVars, connVars,
                   distVars, keyword_rows, replies, rtask, sweep, synced,
                   on_delete, mstart, batch>>

\* stop() between its two awaits.
StopAwaitTask ==
    /\ sched.stop = "await_task"
    /\ TaskDone("hourly")
    /\ sched' = [Cancel(sched, "payments") EXCEPT !.stop = "await_payment"]
    /\ UNCHANGED <<inbound, pay, poolVars, matchVars, dbVars, connVars,
                   distVars, keyword_rows, replies, rtask, sweep, synced,
                   on_delete, mstart, batch>>

\* stop() returns.
StopAwaitPayment ==
    /\ sched.stop = "await_payment"
    /\ TaskDone("payments")
    /\ sched' = [sched EXCEPT !.stop = "idle", !.stopped = TRUE]
    /\ UNCHANGED <<inbound, pay, poolVars, matchVars, dbVars, connVars,
                   distVars, keyword_rows, replies, rtask, sweep, synced,
                   on_delete, mstart, batch>>

\* ---- _check_subscriptions with UserCRUD.deactivate_expired

\* The where clause of deactivate_expired: is_active, a subscription_end, and
\* subscription_end <= utcnow().
IsExpiredActive(u) ==
    /\ users[u].is_active = TRUE
    /\ users[u].subscription_end # None
    /\ users[u].subscription_end <= now

\* deactivate_expired: the select.  The reminders before it change nothing.
ExpireSelect ==
    /\ sweep.pc = "idle"
    /\ sweep' = [IdleSweep EXCEPT !.pc = "deactivate",
                                  !.expired = {u \in Users : IsExpiredActive(u)},
                                  !.checked_at = now]
    /\ UNCHANGED <<inbound, pay, sched, batch, poolVars, matchVars, dbVars,
                   connVars, distVars, keyword_rows, replies, rtask, synced,
                   on_delete, mstart>>

\* deactivate_expired: the three assignments on every selected user and the
\* commit.  Nothing here, and nothing after it in _check_subscriptions, calls
\* userbot_pool.stop_client.
ExpireCommit ==
    /\ sweep.pc = "deactivate"
    /\ users' = [u \in Users |->
                    IF u \in sweep.expired
                    THEN [users[u] EXCEPT !.is_active = FALSE,
                                          !.monitoring_enabled = FALSE,
                                          !.session_string = FALSE]
                    ELSE users[u]]
    /\ sweep' = [sweep EXCEPT !.pc = "expiry_done"]
    /\ UNCHANGED <<inbound, pay, sched, batch, poolVars, matchVars, connVars,
                   distVars, keyword_rows, replies, rtask, synced, on_delete,
                   mstart, groups, now, _bot, received, shared_messages,
                   deliveries, orders, notifications, job, syncs>>

\* The notices are sent and _check_subscriptions returns.
ExpireReturn ==
    /\ sweep.pc = "expiry_done"
    /\ sweep' = IdleSweep
    /\ UNCHANGED <<inbound, pay, sched, batch, poolVars, matchVars, dbVars,
                   connVars, distVars, keyword_rows, replies, rtask, synced,
                   on_delete, mstart>>

\* UserCRUD.update_subscription(user_id, days), a confirmed payment: days is
\* one step of the clock.  is_active is left as it is.
update_subscription(u) ==
    /\ users' = [users EXCEPT ![u].subscription_end = ExtendedEnd(users[u])]
    /\ UNCHANGED <<botVars, poolVars, matchVars, connVars, distVars, groups,
                   now, _bot, received, shared_messages, deliveries, orders,
                   notifications, job, syncs>>

\* UserCRUD.update_session(user_id, session_string): the account is
\* authorised again.
update_session(u) ==
    /\ users' = [users EXCEPT ![u].session_string = TRUE]
    /\ UNCHANGED <<botVars, poolVars, matchVars, connVars, distVars, groups,
                   now, _bot, received, shared_messages, deliveries, orders,
                   notifications, job, syncs>>

\* ---- groups_refresh: UserBotService.get_dialogs, then GroupCRUD.sync_groups
\* One sync at a time, with the names and the two shapes of chat ids.

\* The chat ids Telegram reports: two plain groups and one supergroup.
TelegramIds == {-7, -8, -1007}
Names == 1..NumNames

\* The leading decimal digits of n, at most three of them.
RECURSIVE Lead3(_)
Lead3(n) == IF n < 1000 THEN n ELSE Lead3(n \div 10)

\* str(chat_id).startswith("-100")
StartsWithMinus100(chat_id) == chat_id <= -100 /\ Lead3(-chat_id) = 100

\* What client.get_dialogs() yields: group and supergroup chats, each chat
\* once.
Dialogs ==
    {d \in UNION {[1..n -> [id : TelegramIds, name : Names]] : n \in 0..MaxDialogs} :
        \A i, j \in DOMAIN d : d[i].id = d[j].id => i = j}

NoSeen == [n \in Names |-> None]

\* UserBotService.get_dialogs: the loop over the dialogs from the i-th on,
\* with the list built so far, seen_ids and seen_names.
RECURSIVE GetDialogsFrom(_, _, _, _, _)
GetDialogsFrom(d, i, list, seen_ids, seen_names) ==
    IF i > Len(d) THEN list
    ELSE LET chat == d[i]
             existing_id == seen_names[chat.name]
         IN  IF chat.id \in seen_ids
             THEN GetDialogsFrom(d, i + 1, list, seen_ids, seen_names)
             ELSE IF existing_id # None
                     /\ ~(StartsWithMinus100(chat.id)
                          /\ ~StartsWithMinus100(existing_id))
             THEN GetDialogsFrom(d, i + 1, list, seen_ids, seen_names)
             ELSE LET kept ==
                          IF existing_id # None
                          THEN SelectSeq(list, LAMBDA g : g.id # existing_id)
                          ELSE list
                      ids == IF existing_id # None
                             THEN seen_ids \ {existing_id} ELSE seen_ids
                  IN  GetDialogsFrom(d, i + 1, Append(kept, chat),
                                     ids \cup {chat.id},
                                     [seen_names EXCEPT ![chat.name] = chat.id])

get_dialogs(d) == GetDialogsFrom(d, 1, <<>>, {}, NoSeen)

\* GroupCRUD.get_user_groups(user_id): the rows in the order is_enabled desc,
\* group_name.  The database orders rows that tie as it likes.
RowBefore(g, h) ==
    \/ groups[g].is_enabled /\ ~groups[h].is_enabled
    \/ /\ groups[g].is_enabled = groups[h].is_enabled
       /\ groups[g].group_name <= groups[h].group_name

get_user_groups(u) ==
    LET rows == {g \in GroupIds : groups[g].user_id = u}
        n == Cardinality(rows)
    IN  {s \in [1..n -> rows] :
            /\ \A i, j \in 1..n : i # j => s[i] # s[j]
            /\ \A i \in 1..n : i < n => RowBefore(s[i], s[i + 1])}

\* The first loop of sync_groups from the i-th row of existing_groups on:
\* table is the groups table after the deletes so far.
RECURSIVE DedupeFrom(_, _, _, _, _)
DedupeFrom(table, seen_names, existing_groups, i, user_id) ==
    IF i > Len(existing_groups) THEN table
    ELSE LET group == groups[existing_groups[i]]
             existing_id == seen_names[group.group_name]
         IN  IF existing_id = None
             THEN DedupeFrom(table,
                      [seen_names EXCEPT ![group.group_name] =
                                             group.telegram_group_id],
                      existing_groups, i + 1, user_id)
             ELSE IF StartsWithMinus100(group.telegram_group_id)
                     /\ ~StartsWithMinus100(existing_id)
             THEN DedupeFrom(
                      [g \in GroupIds |->
                          IF /\ table[g].user_id = user_id
                             /\ table[g].telegram_group_id = existing_id
                          THEN NoGroup ELSE table[g]],
                      [seen_names EXCEPT ![group.group_name] =
                                             group.telegram_group_id],
                      existing_groups, i + 1, user_id)
             ELSE DedupeFrom([table EXCEPT ![existing_groups[i]] = NoGroup],
                      seen_names, existing_groups, i + 1, user_id)

\* The second loop of sync_groups: add_or_update for the i-th listed chat on.
\* A new row is disabled and takes the smallest free id; a found row gets the
\* listed name; more than one found row raises and ends the sync.
RECURSIVE AddOrUpdateFrom(_, _, _, _)
AddOrUpdateFrom(table, telegram_groups, i, user_id) ==
    IF i > Len(telegram_groups) THEN table
    ELSE LET tg_group == telegram_groups[i]
             group == {g \in GroupIds :
                          /\ table[g].user_id = user_id
                          /\ table[g].telegram_group_id = tg_group.id}
             free == {g \in GroupIds : table[g] = NoGroup}
         IN  IF Cardinality(group) > 1 THEN table
             ELSE IF group = {}
             THEN LET new == CHOOSE g \in free : \A h \in free : g <= h
                  IN  AddOrUpdateFrom(
                          [table EXCEPT ![new] =
                              NamedGroup(user_id, tg_group.id, FALSE,
                                         tg_group.name)],
                          telegram_groups, i + 1, user_id)
             ELSE AddOrUpdateFrom(
                      [g \in GroupIds |->
                          IF g \in group
                          THEN [table[g] EXCEPT !.group_name = tg_group.name]
                          ELSE table[g]],
                      telegram_groups, i + 1, user_id)

\* The rows of a groups table, without their ids.
Rows(table) == {table[g] : g \in GroupIds} \ {NoGroup}

\* What the last sync did: its user and list, the rows after it, whether it
\* changed the rows, and whether it repeated the sync before it on the table
\* that one left.
NoSync ==
    [user_id |-> None, telegram_groups |-> <<>>, after |-> {},
     changed |-> FALSE, again |-> FALSE]

\* groups_refresh for user u when Telegram lists the dialogs d: get_dialogs,
\* then sync_groups with its list.
groups_refresh(u, d) ==
    \E existing_groups \in get_user_groups(u) :
        LET telegram_groups == get_dialogs(d)
            deduped == DedupeFrom(groups, NoSeen, existing_groups, 1, u)
        IN  /\ groups' = AddOrUpdateFrom(deduped, telegram_groups, 1, u)
            /\ synced' = [user_id |-> u, telegram_groups |-> telegram_groups,
                          after |-> Rows(groups'),
                          changed |-> Rows(groups') # Rows(groups),
                          again |-> /\ synced.user_id = u
                                    /\ synced.telegram_groups = telegram_groups
                                    /\ synced.after = Rows(groups)]
            /\ UNCHANGED <<inbound, pay, sched, batch, poolVars, matchVars,
                           connVars, distVars, keyword_rows, replies, rtask,
                           sweep, on_delete, mstart, users, now, _bot,
                           received, shared_messages, deliveries, orders,
                           notifications, job, syncs>>

\* ----------------------------------------------------------- specifications
vars == <<poolVars, matchVars, dbVars, connVars, distVars, botVars>>

\* The pools alone.
PoolInit ==
    /\ kind \in Pools
    /\ clients = NoClients
    /\ lock = None
    /\ conn = NoConns
    /\ task = NoTasks
    /\ last = NoCall
    /\ worker_status = NoStatus
    /\ text = <<>>
    /\ parser = MessageParser(<<>>, <<>>)
    /\ found = Nothing
    /\ checked = Nothing
    /\ users = NoUsers
    /\ groups = NoGroups
    /\ now = 0
    /\ _bot = FALSE
    /\ received = 0
    /\ shared_messages = <<>>
    /\ deliveries = <<>>
    /\ orders = <<>>
    /\ notifications = <<>>
    /\ job = IdleJob
    /\ syncs = NoSyncs
    /\ monitored_groups = NoWatch
    /\ refresh = NoRefreshes
    /\ handled = NoHandled
    /\ loaded = {}
    /\ assignments = <<>>
    /\ workers = NoWorkers
    /\ dtask = NoDistTasks
    /\ keyword_rows = NoKeywords
    /\ replies = <<>>
    /\ rtask = NoRespondTasks
    /\ sweep = IdleSweep
    /\ synced = NoSync
    /\ on_delete = "cascade"
    /\ mstart = NoStarts
    /\ batch = IdleBatch
    /\ sched = NoScheduler
    /\ inbound = NoInbound
    /\ pay = NoPayment

PoolSpec == PoolInit /\ [][PoolNext]_vars

\* The matcher alone, applied to every input of the bounded sets.
MatchInit ==
    /\ text \in Texts
    /\ parser \in Parsers
    /\ found = Nothing
    /\ checked = Nothing
    /\ kind = "user"
    /\ clients = NoClients
    /\ lock = None
    /\ conn = NoConns
    /\ task = NoTasks
    /\ last = NoCall
    /\ worker_status = NoStatus
    /\ users = NoUsers
    /\ groups = NoGroups
    /\ now = 0
    /\ _bot = FALSE
    /\ received = 0
    /\ shared_messages = <<>>
    /\ deliveries = <<>>
    /\ orders = <<>>
    /\ notifications = <<>>
    /\ job = IdleJob
    /\ syncs = NoSyncs
    /\ monitored_groups = NoWatch
    /\ refresh = NoRefreshes
    /\ handled = NoHandled
    /\ loaded = {}
    /\ assignments = <<>>
    /\ workers = NoWorkers
    /\ dtask = NoDistTasks
    /\ keyword_rows = NoKeywords
    /\ replies = <<>>
    /\ rtask = NoRespondTasks
    /\ sweep = IdleSweep
    /\ synced = NoSync
    /\ on_delete = "cascade"
    /\ mstart = NoStarts
    /\ batch = IdleBatch
    /\ sched = NoScheduler
    /\ inbound = NoInbound
    /\ pay = NoPayment

MatchSpec == MatchInit /\ [][MatchNext]_vars

\* The message handlers of both modes against the operations on the users'
\* flags.  Every user starts with monitoring on and not banned, with every
\* chat synced and enabled; the subscription is absent or runs until MaxTime.
\* The clients that main.py started stay connected.
DispatchInit ==
    /\ users \in [Users -> {User(TRUE, FALSE, e) : e \in {None, MaxTime}}]
    /\ groups = [g \in GroupIds |->
                    IF g <= NumUsers * NumChats
                    THEN Group(((g - 1) \div NumChats) + 1,
                               ((g - 1) % NumChats) + 1, TRUE)
                    ELSE NoGroup]
    /\ now = 0
    /\ _bot \in BOOLEAN
    /\ received = 0
    /\ shared_messages = <<>>
    /\ deliveries = <<>>
    /\ orders = <<>>
    /\ notifications = <<>>
    /\ job = IdleJob
    /\ syncs = NoSyncs
    /\ kind = "user"
    /\ clients = NoClients
    /\ lock = None
    /\ conn = NoConns
    /\ task = NoTasks
    /\ last = NoCall
    /\ worker_status = NoStatus
    /\ text = <<>>
    /\ parser = MessageParser(<<>>, <<>>)
    /\ found = Nothing
    /\ checked = Nothing
    /\ monitored_groups = NoWatch
    /\ refresh = NoRefreshes
    /\ handled = NoHandled
    /\ loaded = {}
    /\ assignments = <<>>
    /\ workers = NoWorkers
    /\ dtask = NoDistTasks
    /\ keyword_rows = NoKeywords
    /\ replies = <<>>
    /\ rtask = NoRespondTasks
    /\ sweep = IdleSweep
    /\ synced = NoSync
    /\ on_delete = "cascade"
    /\ mstart = NoStarts
    /\ batch = IdleBatch
    /\ sched = NoScheduler
    /\ inbound = NoInbound
    /\ pay = NoPayment

DispatchNext ==
    \/ now < MaxTime /\ Tick
    \/ \E u \in Users, b \in BOOLEAN : toggle_ban(u, b)
    \/ \E u \in Users, b \in BOOLEAN : toggle_monitoring(u, b)
    \/ \E u \in Users, b \in BOOLEAN : set_banned(u, b)
    \/ \E g \in GroupIds : toggle_group(g)
    \/ \E c \in Chats, t \in MessageTexts : OnMessage(c, t)
    \/ DispatchQuery
    \/ DispatchUser
    \/ \E u \in Users, c \in Chats, t \in MessageTexts : PgmUser(u, c, t)
    \/ PgmOrder

DispatchSpec == DispatchInit /\ [][DispatchNext]_vars

\* The shared dispatch against concurrent group syncs of users who start with
\* no groups row.
SyncInit ==
    /\ users = [u \in Users |-> User(TRUE, FALSE, MaxTime)]
    /\ groups = NoGroups
    /\ now = 0
    /\ _bot = TRUE
    /\ received = 0
    /\ shared_messages = <<>>
    /\ deliveries = <<>>
    /\ orders = <<>>
    /\ notifications = <<>>
    /\ job = IdleJob
    /\ syncs = NoSyncs
    /\ kind = "user"
    /\ clients = NoClients
    /\ lock = None
    /\ conn = NoConns
    /\ task = NoTasks
    /\ last = NoCall
    /\ worker_status = NoStatus
    /\ text = <<>>
    /\ parser = MessageParser(<<>>, <<>>)
    /\ found = Nothing
    /\ checked = Nothing
    /\ monitored_groups = NoWatch
    /\ refresh = NoRefreshes
    /\ handled = NoHandled
    /\ loaded = {}
    /\ assignments = <<>>
    /\ workers = NoWorkers
    /\ dtask = NoDistTasks
    /\ keyword_rows = NoKeywords
    /\ replies = <<>>
    /\ rtask = NoRespondTasks
    /\ sweep = IdleSweep
    /\ synced = NoSync
    /\ on_delete = "cascade"
    /\ mstart = NoStarts
    /\ batch = IdleBatch
    /\ sched = NoScheduler
    /\ inbound = NoInbound
    /\ pay = NoPayment

SyncNext ==
    \/ \E s \in Syncs, u \in Users : SyncBegin(s, u)
    \/ \E s \in Syncs : AddOrUpdateSelect(s)
    \/ \E s \in Syncs : AddOrUpdateCommit(s)
    \/ \E g \in GroupIds : toggle_group(g)
    \/ \E c \in Chats, t \in MessageTexts : OnMessage(c, t)
    \/ DispatchQuery
    \/ DispatchUser

SyncSpec == SyncInit /\ [][SyncNext]_vars

\* One running Connection, of a user or of a worker, with refresh_groups calls,
\* inbound messages and changes of the owner's enabled set.
ConnInit ==
    /\ kind \in Pools
    /\ clients = NoClients
    /\ lock = None
    /\ conn = NoConns
    /\ task = NoTasks
    /\ last = NoCall
    /\ worker_status = NoStatus
    /\ text = <<>>
    /\ parser = MessageParser(<<>>, <<>>)
    /\ found = Nothing
    /\ checked = Nothing
    /\ users = [u \in Users |-> User(TRUE, FALSE, MaxTime)]
    /\ \E e \in [Watched -> BOOLEAN] :
           groups = [g \in GroupIds |->
                        IF g \in Watched THEN Group(Owner, g, e[g])
                        ELSE NoGroup]
    /\ now = 0
    /\ _bot = FALSE
    /\ received = 0
    /\ shared_messages = <<>>
    /\ deliveries = <<>>
    /\ orders = <<>>
    /\ notifications = <<>>
    /\ job = IdleJob
    /\ syncs = NoSyncs
    /\ assignments = [c \in Watched |-> GroupAssignment(Owner, c)]
    /\ workers = NoWorkers
    /\ dtask = NoDistTasks
    /\ keyword_rows = NoKeywords
    /\ replies = <<>>
    /\ rtask = NoRespondTasks
    /\ sweep = IdleSweep
    /\ synced = NoSync
    /\ on_delete = "cascade"
    /\ mstart = NoStarts
    /\ batch = IdleBatch
    /\ sched = NoScheduler
    /\ inbound = NoInbound
    /\ pay = NoPayment
    /\ monitored_groups = [k \in Owners |->
                              IF k = Owner THEN WatchTargets(Owner) ELSE {}]
    /\ refresh = NoRefreshes
    /\ handled = NoHandled
    /\ loaded = {WatchTargets(Owner)}

\* At most MaxMsgs messages arrive while the refreshes run.
ConnNext ==
    \/ \E r \in Refreshes : LoadQuery(r, Owner)
    \/ \E r \in Refreshes : LoadAssign(r)
    \/ received < MaxMsgs /\ \E m \in Messages : HandleMessage(m)
    \/ \E g \in GroupIds : group_toggle(g)
    \/ \E S \in SUBSET OwnerGroups : groups_bulk_enable_process(S)
    \/ \E c \in Watched : unassign_group(c)

ConnSpec == ConnInit /\ [][ConnNext]_vars


\* The running system around a user's Connection.  No handler and no job
\* calls UserBotPool.refresh_groups, so no refresh is ever begun; the event
\* loop does run every handler that has a message to handle.
ConnLiveInit ==
    /\ kind = "user"
    /\ clients = NoClients
    /\ lock = None
    /\ conn = NoConns
    /\ task = NoTasks
    /\ last = NoCall
    /\ worker_status = NoStatus
    /\ text = <<>>
    /\ parser = MessageParser(<<>>, <<>>)
    /\ found = Nothing
    /\ checked = Nothing
    /\ users = [u \in Users |-> User(TRUE, FALSE, MaxTime)]
    /\ \E e \in [Watched -> BOOLEAN] :
           groups = [g \in GroupIds |->
                        IF g \in Watched THEN Group(Owner, g, e[g])
                        ELSE NoGroup]
    /\ now = 0
    /\ _bot = FALSE
    /\ received = 0
    /\ shared_messages = <<>>
    /\ deliveries = <<>>
    /\ orders = <<>>
    /\ notifications = <<>>
    /\ job = IdleJob
    /\ syncs = NoSyncs
    /\ assignments = [c \in Watched |-> GroupAssignment(Owner, c)]
    /\ workers = NoWorkers
    /\ dtask = NoDistTasks
    /\ keyword_rows = NoKeywords
    /\ replies = <<>>
    /\ rtask = NoRespondTasks
    /\ sweep = IdleSweep
    /\ synced = NoSync
    /\ on_delete = "cascade"
    /\ mstart = NoStarts
    /\ batch = IdleBatch
    /\ sched = NoScheduler
    /\ inbound = NoInbound
    /\ pay = NoPayment
    /\ monitored_groups = [k \in Owners |->
                              IF k = Owner THEN WatchTargets(Owner) ELSE {}]
    /\ refresh = NoRefreshes
    /\ handled = NoHandled
    /\ loaded = {WatchTargets(Owner)}

ConnLiveNext ==
    \/ \E m \in Messages : HandleMessage(m)
    \/ \E g \in GroupIds : group_toggle(g)
    \/ \E S \in SUBSET OwnerGroups : groups_bulk_enable_process(S)

ConnLiveSpec ==
    /\ ConnLiveInit
    /\ [][ConnLiveNext]_vars
    /\ WF_vars(\E m \in Messages : HandleMessage(m))

\* The users a distribution is computed for: eligible, monitoring off,
\* banned with monitoring still on, subscription expired.
UserConfigs ==
    {User(TRUE, FALSE, MaxTime), User(FALSE, FALSE, MaxTime),
     User(TRUE, TRUE, MaxTime), User(TRUE, FALSE, 0)}

\* The groups rows of two users: both have chat 1, under the title "a" or,
\* for the second user, under a title stored at another time.
DistGroups(e, title) ==
    [g \in GroupIds |->
        IF g = 1 THEN NamedGroup(1, 1, TRUE, "a")
        ELSE IF g = 2 THEN NamedGroup(1, 2, e[1], "a")
        ELSE IF g = 3 THEN NamedGroup(2, 1, TRUE, title)
        ELSE IF g = 4 THEN NamedGroup(2, NumDemanded, e[2], "a")
        ELSE NoGroup]

\* Tables of assignments with at most one row for a chat: a[c] is the worker
\* of chat c, None for an unassigned chat.
AssignmentsOf(a) ==
    LET F[c \in 0..NumDemanded] ==
            IF c = 0 THEN <<>>
            ELSE IF a[c] = None THEN F[c - 1]
            ELSE Append(F[c - 1], GroupAssignment(a[c], c))
    IN  F[NumDemanded]

\* The coroutine of a specification with one caller.
OneTask == {CHOOSE t \in Tasks : \A u \in Tasks : t <= u}

\* redistribute_groups alone, called once, over every table of the bounded
\* sets; the workers that are active are running.
RedistInit ==
    /\ kind = "shared"
    /\ worker_status \in [Owners -> [is_active : BOOLEAN, last_error : {FALSE}]]
    /\ clients = [k \in Owners |->
                     IF worker_status[k].is_active THEN 1 ELSE None]
    /\ lock = None
    /\ conn = [k \in Owners |-> [c \in ConnIds |->
                  IF c = 1 /\ worker_status[k].is_active THEN Client(TRUE)
                  ELSE NoConn]]
    /\ task = NoTasks
    /\ last = NoCall
    /\ text = <<>>
    /\ parser = MessageParser(<<>>, <<>>)
    /\ found = Nothing
    /\ checked = Nothing
    /\ users \in [Users -> UserConfigs]
    /\ \E e \in [1..2 -> BOOLEAN], title \in {"a", "b"} :
           groups = DistGroups(e, title)
    /\ now = 0
    /\ _bot = FALSE
    /\ received = 0
    /\ shared_messages = <<>>
    /\ deliveries = <<>>
    /\ orders = <<>>
    /\ notifications = <<>>
    /\ job = IdleJob
    /\ syncs = NoSyncs
    /\ \E n \in Perms(Owners) :
           workers = [k \in Owners |-> MonitorWorker(n[k], MaxGroups)]
    /\ assignments \in
           {AssignmentsOf(a) :
               a \in {[c \in 1..NumDemanded |-> None],
                      [c \in 1..NumDemanded |-> 1],
                      [c \in 1..NumDemanded |-> IF c = 2 THEN 2 ELSE None]}}
    /\ monitored_groups = [k \in Owners |->
                              IF clients[k] # None THEN get_worker_groups(k)
                              ELSE {}]
    /\ refresh = NoRefreshes
    /\ handled = NoHandled
    /\ loaded = {}
    /\ dtask = NoDistTasks
    /\ keyword_rows = NoKeywords
    /\ replies = <<>>
    /\ rtask = NoRespondTasks
    /\ sweep = IdleSweep
    /\ synced = NoSync
    /\ on_delete = "cascade"
    /\ mstart = NoStarts
    /\ batch = IdleBatch
    /\ sched = NoScheduler
    /\ inbound = NoInbound
    /\ pay = NoPayment

RedistNext ==
    \E t \in OneTask :
        \/ RedistributeWorkers(t)
        \/ RedistributeQuery(t)
        \/ RedistributeDelete(t)
        \/ AssignCheck(t)
        \/ AssignInsert(t)
        \/ RefreshQuery(t)
        \/ RefreshAssign(t)

RedistSpec == RedistInit /\ [][RedistNext]_vars

\* assign_new_group alone, called once, over every table of workers and of
\* assignments with at most one row for a chat.
AssignInit ==
    /\ kind = "shared"
    /\ worker_status \in [Owners -> [is_active : BOOLEAN, last_error : {FALSE}]]
    /\ clients = [k \in Owners |->
                     IF worker_status[k].is_active THEN 1 ELSE None]
    /\ lock = None
    /\ conn = [k \in Owners |-> [c \in ConnIds |->
                  IF c = 1 /\ worker_status[k].is_active THEN Client(TRUE)
                  ELSE NoConn]]
    /\ task = NoTasks
    /\ last = NoCall
    /\ text = <<>>
    /\ parser = MessageParser(<<>>, <<>>)
    /\ found = Nothing
    /\ checked = Nothing
    /\ users = NoUsers
    /\ groups = NoGroups
    /\ now = 0
    /\ _bot = FALSE
    /\ received = 0
    /\ shared_messages = <<>>
    /\ deliveries = <<>>
    /\ orders = <<>>
    /\ notifications = <<>>
    /\ job = IdleJob
    /\ syncs = NoSyncs
    /\ \E n \in Perms(Owners), m \in [Owners -> 1..MaxGroups] :
           workers = [k \in Owners |-> MonitorWorker(n[k], m[k])]
    /\ assignments \in
           {AssignmentsOf(a) :
               a \in [1..NumDemanded -> Owners \cup {None}]}
    /\ monitored_groups = [k \in Owners |->
                              IF clients[k] # None THEN get_worker_groups(k)
                              ELSE {}]
    /\ refresh = NoRefreshes
    /\ handled = NoHandled
    /\ loaded = {}
    /\ dtask = NoDistTasks
    /\ keyword_rows = NoKeywords
    /\ replies = <<>>
    /\ rtask = NoRespondTasks
    /\ sweep = IdleSweep
    /\ synced = NoSync
    /\ on_delete = "cascade"
    /\ mstart = NoStarts
    /\ batch = IdleBatch
    /\ sched = NoScheduler
    /\ inbound = NoInbound
    /\ pay = NoPayment

AssignNext ==
    \E t \in OneTask :
        \/ \E c \in 1..NumDemanded : NewGroupCheck(t, c)
        \/ NewGroupPick(t)
        \/ AssignCheck(t)
        \/ AssignInsert(t)
        \/ RefreshQuery(t)
        \/ RefreshAssign(t)

AssignSpec == AssignInit /\ [][AssignNext]_vars

\* Concurrent calls of the distributor, one by each coroutine, for two
\* eligible users and two active, running workers with nothing assigned yet.
RaceInit ==
    /\ kind = "shared"
    /\ worker_status = NoStatus
    /\ clients = [k \in Owners |-> 1]
    /\ lock = None
    /\ conn = [k \in Owners |-> [c \in ConnIds |->
                  IF c = 1 THEN Client(TRUE) ELSE NoConn]]
    /\ task = NoTasks
    /\ last = NoCall
    /\ text = <<>>
    /\ parser = MessageParser(<<>>, <<>>)
    /\ found = Nothing
    /\ checked = Nothing
    /\ users = [u \in Users |-> User(TRUE, FALSE, MaxTime)]
    /\ groups = DistGroups([i \in 1..2 |-> TRUE], "a")
    /\ now = 0
    /\ _bot = FALSE
    /\ received = 0
    /\ shared_messages = <<>>
    /\ deliveries = <<>>
    /\ orders = <<>>
    /\ notifications = <<>>
    /\ job = IdleJob
    /\ syncs = NoSyncs
    /\ workers = [k \in Owners |-> MonitorWorker(k, MaxGroups)]
    /\ assignments = <<>>
    /\ monitored_groups = NoWatch
    /\ refresh = NoRefreshes
    /\ handled = NoHandled
    /\ loaded = {}
    /\ dtask = NoDistTasks
    /\ keyword_rows = NoKeywords
    /\ replies = <<>>
    /\ rtask = NoRespondTasks
    /\ sweep = IdleSweep
    /\ synced = NoSync
    /\ on_delete = "cascade"
    /\ mstart = NoStarts
    /\ batch = IdleBatch
    /\ sched = NoScheduler
    /\ inbound = NoInbound
    /\ pay = NoPayment

RaceNext ==
    \E t \in Tasks :
        \/ RedistributeWorkers(t)
        \/ RedistributeQuery(t)
        \/ RedistributeDelete(t)
        \/ \E c \in 1..NumDemanded : NewGroupCheck(t, c)
        \/ NewGroupPick(t)
        \/ AssignCheck(t)
        \/ AssignInsert(t)
        \/ RefreshQuery(t)
        \/ RefreshAssign(t)

RaceSpec == RaceInit /\ [][RaceNext]_vars

\* The order_take handler, called concurrently: every user may press the
\* button of every order id, the orders exist already, and a user's client
\* is either running in the pool or not.
RespondInit ==
    /\ kind = "user"
    /\ worker_status = NoStatus
    /\ \E r \in [Owners -> BOOLEAN] :
           /\ clients = [k \in Owners |-> IF r[k] THEN 1 ELSE None]
           /\ conn = [k \in Owners |-> [c \in ConnIds |->
                         IF r[k] /\ c = 1 THEN Client(TRUE) ELSE NoConn]]
    /\ lock = None
    /\ task = NoTasks
    /\ last = NoCall
    /\ text = <<>>
    /\ parser = MessageParser(<<>>, <<>>)
    /\ found = Nothing
    /\ checked = Nothing
    /\ \E s \in [Users -> BOOLEAN] :
           users = [u \in Users |->
                       [User(TRUE, FALSE, MaxTime) EXCEPT
                           !.session_string = s[u]]]
    /\ groups = [g \in GroupIds |->
                    IF g \in Users THEN Group(g, 1, TRUE) ELSE NoGroup]
    /\ now = 0
    /\ _bot = TRUE
    /\ received = 0
    /\ shared_messages = <<>>
    /\ deliveries = <<>>
    /\ orders = [i \in 1..NumOrders |->
                    Order(((i - 1) % NumUsers) + 1, 1, i)]
    /\ notifications = <<>>
    /\ job = IdleJob
    /\ syncs = NoSyncs
    /\ workers = NoWorkers
    /\ assignments = <<>>
    /\ monitored_groups = NoWatch
    /\ refresh = NoRefreshes
    /\ handled = NoHandled
    /\ loaded = {}
    /\ dtask = NoDistTasks
    /\ keyword_rows = NoKeywords
    /\ replies = <<>>
    /\ rtask = NoRespondTasks
    /\ sweep = IdleSweep
    /\ synced = NoSync
    /\ on_delete = "cascade"
    /\ mstart = NoStarts
    /\ batch = IdleBatch
    /\ sched = NoScheduler
    /\ inbound = NoInbound
    /\ pay = NoPayment

\* The shared dispatch and the purge sweep on one clock.  The clock moves at
\* most once while a message is being dispatched.
PurgeInit ==
    /\ kind = "shared"
    /\ worker_status = NoStatus
    /\ clients = NoClients
    /\ lock = None
    /\ conn = NoConns
    /\ task = NoTasks
    /\ last = NoCall
    /\ text = <<>>
    /\ parser = MessageParser(<<>>, <<>>)
    /\ found = Nothing
    /\ checked = Nothing
    /\ users = [u \in Users |-> User(TRUE, FALSE, MaxAge + 1)]
    /\ groups = [g \in GroupIds |->
                    IF g \in Users THEN Group(g, 1, TRUE) ELSE NoGroup]
    /\ now = 0
    /\ _bot \in BOOLEAN
    /\ received = 0
    /\ shared_messages = <<>>
    /\ deliveries = <<>>
    /\ orders = <<>>
    /\ notifications = <<>>
    /\ job = IdleJob
    /\ syncs = NoSyncs
    /\ workers = NoWorkers
    /\ assignments = <<>>
    /\ monitored_groups = NoWatch
    /\ refresh = NoRefreshes
    /\ handled = NoHandled
    /\ loaded = {}
    /\ dtask = NoDistTasks
    /\ keyword_rows = NoKeywords
    /\ replies = <<>>
    /\ rtask = NoRespondTasks
    /\ sweep = IdleSweep
    /\ synced = NoSync
    /\ on_delete \in OnDeleteRules
    /\ mstart = NoStarts
    /\ batch = IdleBatch
    /\ sched = NoScheduler
    /\ inbound = NoInbound
    /\ pay = NoPayment

PurgeNext ==
    \/ /\ now < MaxAge
       /\ job.pc # "idle" =>
              now = shared_messages[job.shared_message_id].created_at
       /\ Tick
    \/ \E c \in Chats, t \in MessageTexts : OnMessage(c, t)
    \/ DispatchQuery
    \/ DispatchUser
    \/ CleanupDeliveries
    \/ CleanupShared
    \/ CleanupReturn

PurgeSpec == PurgeInit /\ [][PurgeNext]_vars

RespondNext ==
    \E t \in Tasks :
        \/ \E u \in Users, o \in OrderIds : TakeBegin(t, u, o)
        \/ TakeGetOrder(t)
        \/ TakeSendOk(t)
        \/ TakeSendRaise(t)
        \/ TakeMarkOk(t)
        \/ TakeMarkRaise(t)

RespondSpec == RespondInit /\ [][RespondNext]_vars

\* The hourly subscription check beside payments, logins and monitoring_start,
\* per-user mode.  Every user starts with a subscription, keywords, an enabled
\* group, monitoring switched on and a running client.
ExpiryInit ==
    /\ kind = "user"
    /\ worker_status = NoStatus
    /\ clients = [k \in Owners |-> 1]
    /\ lock = None
    /\ conn = [k \in Owners |-> [c \in ConnIds |->
                  IF c = 1 THEN Client(TRUE) ELSE NoConn]]
    /\ task = NoTasks
    /\ last = NoCall
    /\ text = <<>>
    /\ parser = MessageParser(<<>>, <<>>)
    /\ found = Nothing
    /\ checked = Nothing
    /\ \E e \in [Users -> 1..2] :
           users = [u \in Users |-> User(TRUE, FALSE, e[u])]
    /\ groups = [g \in GroupIds |->
                    IF g \in Users THEN Group(g, 1, TRUE) ELSE NoGroup]
    /\ now = 0
    /\ _bot = TRUE
    /\ received = 0
    /\ shared_messages = <<>>
    /\ deliveries = <<>>
    /\ orders = <<>>
    /\ notifications = <<>>
    /\ job = IdleJob
    /\ syncs = NoSyncs
    /\ workers = NoWorkers
    /\ assignments = <<>>
    /\ monitored_groups = NoWatch
    /\ refresh = NoRefreshes
    /\ handled = NoHandled
    /\ loaded = {}
    /\ dtask = NoDistTasks
    /\ keyword_rows = [u \in Users |-> {1}]
    /\ replies = <<>>
    /\ rtask = NoRespondTasks
    /\ sweep = IdleSweep
    /\ synced = NoSync
    /\ on_delete = "cascade"
    /\ mstart = NoStarts
    /\ batch = IdleBatch
    /\ sched = NoScheduler
    /\ inbound = NoInbound
    /\ pay = NoPayment

ExpiryNext ==
    \/ now < MaxAge /\ Tick
    \/ ExpireSelect
    \/ ExpireCommit
    \/ ExpireReturn
    \/ \E u \in Users :
           \/ users[u].subscription_end <= MaxAge /\ update_subscription(u)
           \/ update_session(u)
           \/ MonitoringStartRead(u)
           \/ MonitoringStartSet(u)
           \/ \E success \in BOOLEAN : MonitoringStartClient(u, success)

ExpirySpec == ExpiryInit /\ [][ExpiryNext]_vars

\* The handlers that change a user's keywords, enabled groups and monitoring
\* flag, with the dashboard's toggle, per-user mode.  Every user is logged in
\* and has a subscription; monitoring is off.
FlagInit ==
    /\ kind = "user"
    /\ worker_status = NoStatus
    /\ clients = NoClients
    /\ lock = None
    /\ conn = NoConns
    /\ task = NoTasks
    /\ last = NoCall
    /\ text = <<>>
    /\ parser = MessageParser(<<>>, <<>>)
    /\ found = Nothing
    /\ checked = Nothing
    /\ users = [u \in Users |-> User(FALSE, FALSE, MaxTime + 1)]
    /\ \E e \in [Users -> BOOLEAN] :
           groups = [g \in GroupIds |->
                        IF g \in Users THEN Group(g, 1, e[g]) ELSE NoGroup]
    /\ now = 0
    /\ _bot = TRUE
    /\ received = 0
    /\ shared_messages = <<>>
    /\ deliveries = <<>>
    /\ orders = <<>>
    /\ notifications = <<>>
    /\ job = IdleJob
    /\ syncs = NoSyncs
    /\ workers = NoWorkers
    /\ assignments = <<>>
    /\ monitored_groups = NoWatch
    /\ refresh = NoRefreshes
    /\ handled = NoHandled
    /\ loaded = {}
    /\ dtask = NoDistTasks
    /\ keyword_rows \in [Users -> SUBSET KeywordIds]
    /\ replies = <<>>
    /\ rtask = NoRespondTasks
    /\ sweep = IdleSweep
    /\ synced = NoSync
    /\ on_delete = "cascade"
    /\ mstart = NoStarts
    /\ batch = IdleBatch
    /\ sched = NoScheduler
    /\ inbound = NoInbound
    /\ pay = NoPayment

FlagNext ==
    \/ \E u \in Users :
           \/ \E k \in KeywordIds : add_keyword(u, k)
           \/ \E k \in KeywordIds : keyword_confirm_delete(u, k)
           \/ keyword_confirm_delete_all(u)
           \/ MonitoringStartRead(u)
           \/ MonitoringStartSet(u)
           \/ \E success \in BOOLEAN : MonitoringStartClient(u, success)
           \/ \E enabled \in BOOLEAN : toggle_monitoring(u, enabled)
    \/ \E g \in GroupIds : toggle_group(g)

FlagSpec == FlagInit /\ [][FlagNext]_vars

\* The monitoring-on and monitoring-off handlers of every user, one of each
\* in flight at a time and any number one after the other.  Every user has a
\* session, a subscription, an enabled group and a keyword; the bot instance
\* is set and every transport start succeeds; a user's flag is set exactly
\* when the user's client runs.
ToggleInit ==
    /\ kind = "user"
    /\ worker_status = NoStatus
    /\ \E on \in [Users -> BOOLEAN] :
           /\ users = [u \in Users |-> User(on[u], FALSE, MaxTime + 1)]
           /\ clients = [u \in Owners |-> IF on[u] THEN 1 ELSE None]
           /\ conn = [u \in Owners |-> [c \in ConnIds |->
                         IF on[u] /\ c = 1 THEN Client(TRUE) ELSE NoConn]]
    /\ lock = None
    /\ task = NoTasks
    /\ last = NoCall
    /\ text = <<>>
    /\ parser = MessageParser(<<>>, <<>>)
    /\ found = Nothing
    /\ checked = Nothing
    /\ groups = [g \in GroupIds |->
                    IF g \in Users THEN Group(g, 1, TRUE) ELSE NoGroup]
    /\ now = 0
    /\ _bot = TRUE
    /\ received = 0
    /\ shared_messages = <<>>
    /\ deliveries = <<>>
    /\ orders = <<>>
    /\ notifications = <<>>
    /\ job = IdleJob
    /\ syncs = NoSyncs
    /\ workers = NoWorkers
    /\ assignments = <<>>
    /\ monitored_groups = NoWatch
    /\ refresh = NoRefreshes
    /\ handled = NoHandled
    /\ loaded = {}
    /\ dtask = NoDistTasks
    /\ keyword_rows = [u \in Users |-> {1}]
    /\ replies = <<>>
    /\ rtask = NoRespondTasks
    /\ sweep = IdleSweep
    /\ synced = NoSync
    /\ on_delete = "cascade"
    /\ mstart = NoStarts
    /\ batch = IdleBatch
    /\ sched = NoScheduler
    /\ inbound = NoInbound
    /\ pay = NoPayment

ToggleNext ==
    \E u \in Users :
        \/ MonitoringStartRead(u)
        \/ MonitoringStartSet(u)
        \/ MonitoringStartClient(u, TRUE)
        \/ MonitoringStopSet(u)
        \/ MonitoringStopClient(u)

ToggleSpec == ToggleInit /\ [][ToggleNext]_vars

\* The bot from its start: start_active_userbots starts the clients of the
\* users whose monitoring flag is set, then the monitoring handlers run, and
\* the running clients are handed messages.  No client runs before.
CallbackInit ==
    /\ kind = "user"
    /\ worker_status = NoStatus
    /\ \E on \in [Users -> BOOLEAN] :
           users = [u \in Users |-> User(on[u], FALSE, MaxTime + 1)]
    /\ clients = NoClients
    /\ conn = NoConns
    /\ lock = None
    /\ task = NoTasks
    /\ last = NoCall
    /\ text = <<>>
    /\ parser = MessageParser(<<>>, <<>>)
    /\ found = Nothing
    /\ checked = Nothing
    /\ groups = [g \in GroupIds |->
                    IF g \in Users THEN Group(g, 1, TRUE) ELSE NoGroup]
    /\ now = 0
    /\ _bot = TRUE
    /\ received = 0
    /\ shared_messages = <<>>
    /\ deliveries = <<>>
    /\ orders = <<>>
    /\ notifications = <<>>
    /\ job = IdleJob
    /\ syncs = NoSyncs
    /\ workers = NoWorkers
    /\ assignments = <<>>
    /\ monitored_groups = NoWatch
    /\ refresh = NoRefreshes
    /\ handled = NoHandled
    /\ loaded = {}
    /\ dtask = NoDistTasks
    /\ keyword_rows = [u \in Users |-> {1}]
    /\ replies = <<>>
    /\ rtask = NoRespondTasks
    /\ sweep = IdleSweep
    /\ synced = NoSync
    /\ on_delete = "cascade"
    /\ mstart = NoStarts
    /\ batch = IdleBatch
    /\ sched = NoScheduler
    /\ inbound = [NoInbound EXCEPT !.startup = "query"]
    /\ pay = NoPayment

CallbackNext ==
    \/ StartupQuery
    \/ \E success \in BOOLEAN : StartupUser(success)
    \/ /\ inbound.startup = "done"
       /\ \E u \in Users :
              \/ MonitoringStartRead(u)
              \/ MonitoringStartSet(u)
              \/ \E success \in BOOLEAN : MonitoringStartClient(u, success)
              \/ MonitoringStopSet(u)
              \/ MonitoringStopClient(u)
    \/ /\ received < MaxMsgs
       /\ \E u \in Users, m \in Messages, t \in MessageTexts :
              InboundMessage(u, m, t)
    \/ PgmOrder

CallbackSpec == CallbackInit /\ [][CallbackNext]_vars

\* One payment from the moment subscription_buy has created it: the
\* payments row and the pending entry exist and the payment system has it as
\* pending.  The payer's subscription has lapsed or is still running.  The
\* webhook comes once; the poller and the button act any number of times,
\* until the subscription was extended MaxExtensions times.
PayInit ==
    /\ kind = "user"
    /\ worker_status = NoStatus
    /\ clients = NoClients
    /\ conn = NoConns
    /\ lock = None
    /\ task = NoTasks
    /\ last = NoCall
    /\ text = <<>>
    /\ parser = MessageParser(<<>>, <<>>)
    /\ found = Nothing
    /\ checked = Nothing
    /\ groups = [g \in GroupIds |->
                    IF g \in Users THEN Group(g, 1, TRUE) ELSE NoGroup]
    /\ now = 0
    /\ _bot = TRUE
    /\ received = 0
    /\ shared_messages = <<>>
    /\ deliveries = <<>>
    /\ orders = <<>>
    /\ notifications = <<>>
    /\ job = IdleJob
    /\ syncs = NoSyncs
    /\ workers = NoWorkers
    /\ assignments = <<>>
    /\ monitored_groups = NoWatch
    /\ refresh = NoRefreshes
    /\ handled = NoHandled
    /\ loaded = {}
    /\ dtask = NoDistTasks
    /\ keyword_rows = [u \in Users |-> {1}]
    /\ replies = <<>>
    /\ rtask = NoRespondTasks
    /\ sweep = IdleSweep
    /\ synced = NoSync
    /\ on_delete = "cascade"
    /\ mstart = NoStarts
    /\ batch = IdleBatch
    /\ sched = NoScheduler
    /\ inbound = NoInbound
    /\ \E u \in Users, e \in [Users -> {None, MaxTime}] :
           /\ users = [v \in Users |-> User(FALSE, FALSE, e[v])]
           /\ pay = [NoPayment EXCEPT !.user_id = u, !.gateway = "pending",
                                      !.row = "pending", !.pending = TRUE]

PayNext ==
    \/ GatewaySucceeds
    \/ WebhookConfirm
    \/ \E ok \in BOOLEAN : WebhookActivate(ok)
    \/ PollCheck
    \/ pay.extensions < MaxExtensions /\ PollExtend
    \/ \E ok \in BOOLEAN : PollConfirm(ok)
    \/ ManualCheck
    \/ pay.extensions < MaxExtensions /\ ManualExtend
    \/ \E ok \in BOOLEAN : ManualConfirm(ok)
    \/ now < MaxTime /\ Tick

PaySpec == PayInit /\ [][PayNext]_vars

\* One user's refreshes of the group list, one after the other, with the
\* user's toggles between them.  The other user has a row of its own.
RefreshInit ==
    /\ kind = "user"
    /\ worker_status = NoStatus
    /\ clients = NoClients
    /\ lock = None
    /\ conn = NoConns
    /\ task = NoTasks
    /\ last = NoCall
    /\ text = <<>>
    /\ parser = MessageParser(<<>>, <<>>)
    /\ found = Nothing
    /\ checked = Nothing
    /\ users = [u \in Users |-> User(FALSE, FALSE, MaxTime + 1)]
    /\ groups = [g \in GroupIds |->
                    IF g = 1 THEN NamedGroup(2, -7, TRUE, 1) ELSE NoGroup]
    /\ now = 0
    /\ _bot = TRUE
    /\ received = 0
    /\ shared_messages = <<>>
    /\ deliveries = <<>>
    /\ orders = <<>>
    /\ notifications = <<>>
    /\ job = IdleJob
    /\ syncs = NoSyncs
    /\ workers = NoWorkers
    /\ assignments = <<>>
    /\ monitored_groups = NoWatch
    /\ refresh = NoRefreshes
    /\ handled = NoHandled
    /\ loaded = {}
    /\ dtask = NoDistTasks
    /\ keyword_rows = NoKeywords
    /\ replies = <<>>
    /\ rtask = NoRespondTasks
    /\ sweep = IdleSweep
    /\ synced = NoSync
    /\ on_delete = "cascade"
    /\ mstart = NoStarts
    /\ batch = IdleBatch
    /\ sched = NoScheduler
    /\ inbound = NoInbound
    /\ pay = NoPayment

RefreshNext ==
    \/ \E d \in Dialogs : groups_refresh(1, d)
    \/ \E g \in GroupIds : groups[g].user_id = 1 /\ toggle_group(g)

RefreshSpec == RefreshInit /\ [][RefreshNext]_vars

\* The shared dispatch pass by pass, with failing statements.  Every user
\* monitors the chat; the first user may have the chat in two groups rows, as
\* concurrent syncs leave them.
NotifyInit ==
    /\ kind = "shared"
    /\ worker_status = NoStatus
    /\ clients = NoClients
    /\ lock = None
    /\ conn = NoConns
    /\ task = NoTasks
    /\ last = NoCall
    /\ text = <<>>
    /\ parser = MessageParser(<<>>, <<>>)
    /\ found = Nothing
    /\ checked = Nothing
    /\ users = [u \in Users |-> User(TRUE, FALSE, MaxTime + 1)]
    /\ \E twice \in BOOLEAN :
           groups = [g \in GroupIds |->
                        IF g \in Users THEN Group(g, 1, TRUE)
                        ELSE IF twice /\ g = NumUsers + 1
                        THEN Group(1, 1, TRUE) ELSE NoGroup]
    /\ now = 0
    /\ _bot \in BOOLEAN
    /\ received = 0
    /\ shared_messages = <<>>
    /\ deliveries = <<>>
    /\ orders = <<>>
    /\ notifications = <<>>
    /\ job = IdleJob
    /\ syncs = NoSyncs
    /\ workers = NoWorkers
    /\ assignments = <<>>
    /\ monitored_groups = NoWatch
    /\ refresh = NoRefreshes
    /\ handled = NoHandled
    /\ loaded = {}
    /\ dtask = NoDistTasks
    /\ keyword_rows = NoKeywords
    /\ replies = <<>>
    /\ rtask = NoRespondTasks
    /\ sweep = IdleSweep
    /\ synced = NoSync
    /\ on_delete = "cascade"
    /\ mstart = NoStarts
    /\ batch = IdleBatch
    /\ sched = NoScheduler
    /\ inbound = NoInbound
    /\ pay = NoPayment

NotifyNext ==
    \/ \E c \in Chats, t \in MessageTexts : OnMessage(c, t)
    \/ DispatchQuery
    \/ \E fault, broken \in BOOLEAN : UserFilters(fault, broken)
    \/ \E fault, broken \in BOOLEAN : DeliveryAdd(fault, broken)
    \/ \E fault \in BOOLEAN : NotifyOrder(fault)
    \/ \E ok \in BOOLEAN : NotifySend(ok)

NotifySpec == NotifyInit /\ [][NotifyNext]_vars

\* The scheduler of a bot that is started and shut down, any number of times.
\* The event loop runs every task that can run, and sleeps and awaited calls
\* end.
SchedInit ==
    /\ kind = "user"
    /\ worker_status = NoStatus
    /\ clients = NoClients
    /\ lock = None
    /\ conn = NoConns
    /\ task = NoTasks
    /\ last = NoCall
    /\ text = <<>>
    /\ parser = MessageParser(<<>>, <<>>)
    /\ found = Nothing
    /\ checked = Nothing
    /\ users = NoUsers
    /\ groups = NoGroups
    /\ now = 0
    /\ _bot = TRUE
    /\ received = 0
    /\ shared_messages = <<>>
    /\ deliveries = <<>>
    /\ orders = <<>>
    /\ notifications = <<>>
    /\ job = IdleJob
    /\ syncs = NoSyncs
    /\ workers = NoWorkers
    /\ assignments = <<>>
    /\ monitored_groups = NoWatch
    /\ refresh = NoRefreshes
    /\ handled = NoHandled
    /\ loaded = {}
    /\ dtask = NoDistTasks
    /\ keyword_rows = NoKeywords
    /\ replies = <<>>
    /\ rtask = NoRespondTasks
    /\ sweep = IdleSweep
    /\ synced = NoSync
    /\ on_delete = "cascade"
    /\ mstart = NoStarts
    /\ batch = IdleBatch
    /\ sched = NoScheduler
    /\ inbound = NoInbound
    /\ pay = NoPayment

TaskStep(l) ==
    \/ \E awaits \in 0..MaxAwaits : TaskFirstRun(l, awaits)
    \/ \E exc \in {"none", "Exception", "CancelledError"} :
           IterationAwait(l, exc)
    \/ \E awaits \in 0..MaxAwaits : SleepDone(l, awaits)

StopStep == StopAwaitTask \/ StopAwaitPayment

SchedNext ==
    \/ SchedulerStart
    \/ StopBegin
    \/ StopStep
    \/ \E l \in Loops : TaskStep(l)

SchedSpec ==
    /\ SchedInit
    /\ [][SchedNext]_vars
    /\ WF_vars(StopStep)
    /\ \A l \in Loops : WF_vars(TaskStep(l))

\* ------------------------------------------------------------------- claims

\* The client objects of one owner that exist at all.
Built(k) == {c \in ConnIds : conn[k][c].built}

\* C1: under any interleaving of start calls (and of stop calls) on one pool, no
\* owner ever has two started client objects, and a started client object is the
\* one the registry holds for its owner.
C1_AtMostOneStarted ==
    \A k \in Owners :
        /\ Cardinality(Started(k)) <= 1
        /\ \A c \in Started(k) : clients[k] = c

\* A later _start_worker call for a running worker returned True and built
\* nothing: one started client object, no other object of that worker.
C1_Witness ==
    \E k \in Owners :
        /\ kind = "shared"
        /\ last = Returned("start", k, "true", FALSE)
        /\ Cardinality(Started(k)) = 1
        /\ Built(k) = Started(k)

C3_FailedStartNotRegistered ==
    [][\A t \in Tasks :
          /\ (kind = "user" /\ (StartLoadRaise(t) \/ StartConnectRaise(t)))
                => /\ last' = Returned("start", task[t].key, "false", TRUE)
                   /\ clients'[task[t].key] = None
                   /\ lock' = None
          /\ \A k \in Owners :
                (kind = "user" /\ StartAcquire(t, k) /\ clients[k] = None)
                    => /\ task'[t].pc = "start_load"
                       /\ task'[t].key = k
                       /\ conn'[k][task'[t].c] = Client(FALSE)
                       /\ last' = last
      ]_vars

\* A start_client returned False, and a later one for the same owner is inside
\* its own start attempt.
C3_Witness ==
    \E k \in Owners, t \in Tasks :
        /\ kind = "user"
        /\ last = Returned("start", k, "false", TRUE)
        /\ task[t].pc = "start_connect"
        /\ task[t].key = k
        /\ ~is_running(k)

\* A step in which a stop_client(k) call returns or raises.
StopReturns(t, k) ==
    \/ StopAcquire(t, k) /\ task'[t].pc = "idle"
    \/ (StopWaitOk(t) \/ StopWaitRaise(t)) /\ task[t].key = k

\* C4: stop_client for an owner that is not registered raises nothing and changes
\* nothing; after a stop_client for a registered owner the owner is not
\* registered and has no started client, so that a second call changes nothing.
C4_StopIdempotent ==
    [][\A t \in Tasks, k \in Owners :
          /\ (StopAcquire(t, k) /\ clients[k] = None)
                => /\ last' = Returned("stop", k, "returned", FALSE)
                   /\ clients' = clients
                   /\ conn' = conn
          /\ StopReturns(t, k)
                => /\ clients'[k] = None
                   /\ \A c \in ConnIds : ~conn'[k][c]._running
      ]_vars

\* C5: when stop_all ends, whatever the single stops did, the registry is empty
\* and every client registered when it began has been stopped.
C5_StopAllDrains ==
    [][\A t \in Tasks :
          (task[t].pc \in {"all_loop", "all_wait"} /\ task'[t].pc = "idle")
              => /\ \A k \in Owners : clients'[k] = None
                 /\ \A k \in task[t].began, c \in ConnIds : ~conn'[k][c]._running
      ]_vars

\* The row was made for a subscriber who, when the facts on it were noted, had
\* the chat among the enabled groups, monitoring enabled, no ban and an
\* unexpired subscription.
MadeForEligible(row) ==
    /\ row.at.chat_enabled
    /\ row.at.monitoring_enabled
    /\ ~row.at.is_banned
    /\ row.at.subscription_active

SharedRows(table) == {i \in 1..Len(table) : table[i].mode = "shared"}
PerUserRows(table) == {i \in 1..Len(table) : table[i].mode = "per_user"}

\* C6: in shared-pool dispatch every Delivery, Order and notification is made
\* for a subscriber who at dispatch time (when the query of _dispatch_to_users
\* ran) had the message's chat among the enabled groups, had monitoring
\* enabled, was not banned and had an unexpired subscription.
C6_SharedDispatchOnlyEligible ==
    /\ \A i \in SharedRows(deliveries) : MadeForEligible(deliveries[i])
    /\ \A i \in SharedRows(orders) : MadeForEligible(orders[i])
    /\ \A i \in SharedRows(notifications) : MadeForEligible(notifications[i])

\* A Delivery, an Order and a notification of the shared dispatch exist for a
\* subscriber who was banned after the query had run.
C6_Witness ==
    \E i \in SharedRows(deliveries) :
        /\ users[deliveries[i].user_id].is_banned
        /\ \E j \in SharedRows(orders) : orders[j] = deliveries[i]
        /\ \E j \in SharedRows(notifications) : notifications[j] = deliveries[i]

\* C7: in per-user mode every Order and notification of process_group_message
\* is made for a subscriber who at that moment had monitoring enabled, was not
\* banned, had an unexpired subscription and had the chat among the enabled
\* groups, whatever ban, unban and monitoring operations came before.
\* Violated: process_group_message never reads is_banned.
C7_PerUserOnlyEligible ==
    /\ \A i \in PerUserRows(orders) : MadeForEligible(orders[i])
    /\ \A i \in PerUserRows(notifications) : MadeForEligible(notifications[i])

\* C8: at most one Delivery exists for each pair of an observed message (a
\* shared_group_messages row) and a subscriber.  Violated: the query returns a
\* subscriber once for every enabled groups row of the chat, and two
\* concurrent syncs leave two such rows.
C8_OneDeliveryPerPair ==
    \A i, j \in 1..Len(deliveries) :
        (/\ deliveries[i].shared_message_id = deliveries[j].shared_message_id
         /\ deliveries[i].user_id = deliveries[j].user_id) => i = j

\* The letters (Cyrillic or Latin) and the digits of the alphabet.
LetterOrDigit == {"cy_t", "cy_a", "CY_T", "cy_i", "la_x", "d5"}

\* The lowercased keyword occurs in the lowercased text at a position where no
\* letter and no digit stands immediately before it or immediately after it.
WordBoundaryOccurrence(kw, t) ==
    LET k == lower(kw)
        s == lower(t)
    IN  \E i \in 1..Len(s) :
            /\ OccursAt(k, s, i)
            /\ (i = 1 \/ s[i - 1] \notin LetterOrDigit)
            /\ (i + Len(k) > Len(s) \/ s[i + Len(k)] \notin LetterOrDigit)

SomeKeywordMatches ==
    \E i \in 1..Len(parser.original_keywords) :
        WordBoundaryOccurrence(parser.original_keywords[i], text)

\* C9: _find_keyword_match reports a keyword iff some keyword of the parser
\* occurs, lowercased, in the lowercased text at a position where it is neither
\* immediately preceded nor immediately followed by a Cyrillic letter, a Latin
\* letter or a digit.  Violated: the pattern's class holds only the Russian
\* letters, a-z and 0-9, so a keyword followed by another Cyrillic letter
\* (cy_i) is reported.
C9_WordBoundaryMatch ==
    found # Nothing => ((found[1] # Nothing) <=> SomeKeywordMatches)

SomeCityOccurs ==
    \E i \in 1..Len(parser.cities) :
        \E n \in 1..Len(parser.cities[i].variations) :
            Contains(lower(text), lower(parser.cities[i].variations[n]))

\* C10: check_message returns is_match = true iff some keyword matches with
\* word boundaries and (there are no city filters or some variation of some
\* city is a case-insensitive substring of the text); with no city filters the
\* city is none; with no keywords or an empty text the result is
\* (false, none, none).  Violated through C9: the keyword part of the result is
\* what _find_keyword_match reports.
C10_CheckMessage ==
    checked # Nothing =>
        LET r == checked[1]
        IN  /\ r.is_match <=>
                  (SomeKeywordMatches /\ (parser.cities = <<>> \/ SomeCityOccurs))
            /\ parser.cities = <<>> => r.city = Nothing
            /\ (parser.keywords = <<>> \/ text = <<>>) =>
                  r = Result(FALSE, Nothing, Nothing)

\* The keywords of the parser, by position, that occur in the text at a word
\* boundary, and the cities, by position, with a variation in the text.
BoundarySafeKeywords ==
    {i \in 1..Len(parser.original_keywords) :
        WordBoundaryOccurrence(parser.original_keywords[i], text)}
PresentCities ==
    {i \in 1..Len(parser.cities) :
        \E n \in 1..Len(parser.cities[i].variations) :
            Contains(lower(text), lower(parser.cities[i].variations[n]))}

\* C11: when check_message reports a match, the keyword it returns is the
\* stored text of the first keyword, in stored order, that matches at a word
\* boundary, and the city it returns (if there are city filters) is the
\* city_name of the first city, in filter order, with a variation in the text.
\* Violated through the pattern of C9: a keyword followed by a Cyrillic letter
\* outside the pattern's class is reported ahead of the keyword that does
\* stand at a word boundary.
C11_FirstKeywordFirstCity ==
    (checked # Nothing /\ checked[1].is_match) =>
        /\ \E i \in BoundarySafeKeywords :
              /\ \A j \in BoundarySafeKeywords : i <= j
              /\ checked[1].keyword = <<parser.original_keywords[i]>>
        /\ parser.cities # <<>> =>
              \E i \in PresentCities :
                  /\ \A j \in PresentCities : i <= j
                  /\ checked[1].city = <<parser.cities[i].city_name>>

\* C12: the Connection awaits on_message_callback for a message iff the chat is
\* a group or a supergroup, the chat id is in the watch-list the handler read,
\* the text is not empty and, for a user's Connection, the author is not the
\* owner's account; every other message is dropped.
C12_CallbackOnlyForWatched ==
    handled.any =>
        (handled.called <=>
            /\ handled.msg.chat_type \in {"group", "supergroup"}
            /\ handled.msg.chat_id \in handled.watch
            /\ handled.msg.text # Nothing
            /\ handled.msg.text[1] # <<>>
            /\ (kind = "user" =>
                   handled.msg.from_user # user_telegram_id(Owner)))

\* The callback was invoked for a message of a user's Connection whose author
\* is another account.
C12_Witness ==
    /\ handled.any
    /\ handled.called
    /\ kind = "user"
    /\ handled.msg.from_user = user_telegram_id(Owner + 1)

\* C13: the watch-list only changes by one step of a refresh, which makes it
\* the set that refresh read; the watch-list, and the set a handler tested the
\* chat id against, is always a set some load has read in full; and a message
\* can be handled in every state, also between a refresh's read and its
\* assignment.
C13_AtomicSwap ==
    /\ [](/\ monitored_groups[Owner] \in loaded
          /\ handled.any => handled.watch \in loaded
          /\ \A m \in Messages : ENABLED HandleMessage(m))
    /\ [][monitored_groups' # monitored_groups =>
             \E r \in Refreshes :
                 /\ refresh[r].pc = "read"
                 /\ monitored_groups' =
                        [monitored_groups EXCEPT ![refresh[r].key] =
                            refresh[r].rows]]_vars

\* A message was handled between a refresh's read and its assignment, against
\* the old watch-list, and the refresh then replaced the list by another set.
C13_Witness ==
    /\ handled.any
    /\ handled.refreshing
    /\ handled.called
    /\ handled.watch # monitored_groups[Owner]
    /\ \A r \in Refreshes : refresh[r].pc = "idle"

\* C14: whenever the watch-list of the running Connection differs from the
\* owner's enabled set, it eventually equals the enabled set again.  Violated:
\* group_toggle and groups_bulk_enable_process change the enabled set and
\* nothing refreshes the Connection.
C14_WatchListConverges ==
    (monitored_groups[Owner] # WatchTargets(Owner))
        ~> (monitored_groups[Owner] = WatchTargets(Owner))

\* C15: every chat id has at most one active row of group_assignments, in
\* every state of every interleaving of redistribute_groups and
\* assign_new_group calls.  Violated: assign_group tests and inserts in two
\* statements, and two calls that both found no row both insert one.
C15_AtMostOneActiveAssignment ==
    \A c \in 1..NumDemanded : Cardinality(get_by_group_id(c)) <= 1

\* The chat ids of a query result, each once, in the order of their first
\* rows.
DistinctChats(q) ==
    LET F[i \in 0..Len(q)] ==
            IF i = 0 THEN <<>>
            ELSE IF \E j \in 1..Len(F[i - 1]) : F[i - 1][j] = q[i][1]
                 THEN F[i - 1]
                 ELSE Append(F[i - 1], q[i][1])
    IN  F[Len(q)]

\* The orders of the active workers by name.
ActiveByName ==
    {ws \in Perms({k \in Owners : worker_status[k].is_active}) :
        \A i, j \in 1..Len(ws) :
            i < j => workers[ws[i]].name < workers[ws[j]].name}

\* C16: when redistribute_groups has placed the chats c0..c(k-1) of its
\* query, each chat id counted once, on the N active workers in name order,
\* chat ci has its assignment on workers[i mod N].  Violated: the query is
\* distinct over (telegram_group_id, group_name), a chat stored under two
\* titles takes two turns of the round robin, and the chats after it are
\* shifted by one worker.
C16_RoundRobin ==
    \A t \in Tasks :
        (dtask[t].op = "redistribute" /\ dtask[t].pc = "done"
            /\ dtask[t].todo # <<>>) =>
            \A ws \in ActiveByName :
                LET cs == DistinctChats(dtask[t].todo)
                IN  \A i \in 1..Len(cs) :
                        \E j \in get_by_group_id(cs[i]) :
                            assignments[j].worker_id =
                                ws[((i - 1) % Len(ws)) + 1]

\* The chat ids enabled by a user with monitoring enabled, an unexpired
\* subscription and no ban.
Demanded ==
    {groups[g].telegram_group_id :
        g \in {h \in GroupIds :
                  /\ groups[h] # NoGroup
                  /\ groups[h].is_enabled
                  /\ users[groups[h].user_id].monitoring_enabled
                  /\ is_subscription_active(users[groups[h].user_id])
                  /\ ~users[groups[h].user_id].is_banned}}

Assigned == {assignments[i].telegram_group_id : i \in 1..Len(assignments)}

\* C17: when redistribute_groups has returned, every chat with an assignment
\* is a demanded chat, whatever was assigned before and also with no demanded
\* chat or no active worker, and with an active worker every demanded chat has
\* an assignment.  Violated: the call returns before the delete when there is
\* no active worker or no group, and its query does not test is_banned.
C17_AssignedIsDemanded ==
    \A t \in Tasks :
        (dtask[t].op = "redistribute" /\ dtask[t].pc = "done") =>
            /\ Assigned \subseteq Demanded
            /\ ActiveByName # {<<>>} => Demanded \subseteq Assigned

\* The active rows of worker k in a table of assignments.
CountIn(rows, k) ==
    Cardinality({i \in 1..Len(rows) :
                    rows[i].worker_id = k /\ rows[i].is_active})

\* The active workers with room, given the table before the call.
WithRoom(rows) ==
    {k \in Owners : /\ worker_status[k].is_active
                    /\ CountIn(rows, k) < workers[k].max_groups}

\* A call of assign_new_group for a chat without assignment has returned.
NewGroupCallDone(t) ==
    /\ dtask[t].op = "assign_new_group"
    /\ dtask[t].pc = "done"
    /\ \A i \in 1..Len(dtask[t].before) :
           dtask[t].before[i].telegram_group_id # dtask[t].chat

\* C18: assign_new_group for a chat without assignment returns none and
\* creates nothing when no active worker has room; otherwise it assigns the
\* chat to, and returns, the worker that comes first by name among the active
\* workers with room whose count is least.
C18_LeastLoaded ==
    \A t \in Tasks :
        NewGroupCallDone(t) =>
            LET rows == dtask[t].before
                R == WithRoom(rows)
            IN  IF R = {}
                THEN dtask[t].ret = None /\ assignments = rows
                ELSE /\ dtask[t].ret \in R
                     /\ \A k \in R :
                            \/ CountIn(rows, dtask[t].ret) < CountIn(rows, k)
                            \/ /\ CountIn(rows, dtask[t].ret) = CountIn(rows, k)
                               /\ workers[dtask[t].ret].name <= workers[k].name
                     /\ assignments =
                            Append(rows, GroupAssignment(dtask[t].ret,
                                                         dtask[t].chat))

\* Two workers with room and the same count: the one chosen is the first by
\* name although it has the larger id.
C18_Witness ==
    \E t \in Tasks :
        /\ NewGroupCallDone(t)
        /\ dtask[t].ret = 2
        /\ workers[2].name < workers[1].name
        /\ WithRoom(dtask[t].before) = {1, 2}
        /\ CountIn(dtask[t].before, 1) = CountIn(dtask[t].before, 2)
        /\ CountIn(dtask[t].before, 1) > 0

C20_StartWorkerStatus ==
    [][\A t \in Tasks :
          kind = "shared" =>
              /\ (StartLoadRaise(t) \/ StartConnectRaise(t))
                    => clients'[task[t].key] = None
              /\ StartConnectOk(t) => clients'[task[t].key] # None
              /\ (/\ task[t].pc \in {"start_status_ok", "start_status_err"}
                  /\ task'[t].pc = "idle")
                    => worker_status'[task[t].key] =
                           IF clients[task[t].key] = None
                           THEN [is_active |-> FALSE, last_error |-> TRUE]
                           ELSE [is_active |-> TRUE, last_error |-> FALSE]
      ]_vars

\* The replies sent for order o.
RepliesTo(o) == {i \in 1..Len(replies) : replies[i].order_id = o}

\* C21: an order_take call that began after an earlier call for the same order
\* had sent its reply and marked the order sends no reply and writes nothing,
\* and it returns through one of the early returns.
C21_SecondResponseRejected ==
    \A t \in Tasks :
        rtask[t].after =>
            /\ rtask[t].sent = 0
            /\ ~rtask[t].wrote
            /\ rtask[t].pc \in {"idle", "get_order"}
            /\ rtask[t].ret \in {"none", "already", "no_session"}

\* A call that began after another had taken the same order was turned away
\* by the responded flag, and the order still has its one reply.
C21_Witness ==
    \E t \in Tasks :
        /\ rtask[t].after
        /\ rtask[t].ret = "already"
        /\ Cardinality(RepliesTo(rtask[t].order_id)) = 1
        /\ orders[rtask[t].order_id].responded

\* C22: under every interleaving of order_take calls no order has two
\* replies in its chat.  Violated: two calls that both read responded = false
\* both send, and a call whose mark_responded raised leaves the order open
\* for the next.
C22_AtMostOneReply ==
    \A o \in 1..NumOrders : Cardinality(RepliesTo(o)) <= 1

\* C23: the orders table holds at most one row for each subscriber and
\* message (chat and message id), whichever handler created the rows.
\* Violated in the shared path: _dispatch_to_users reaches _send_notification
\* once for every enabled groups row of the chat, and two concurrent syncs
\* leave a subscriber with two such rows.
C23_OneOrderPerPair ==
    \A i, j \in 1..Len(orders) :
        (/\ orders[i].user_id = orders[j].user_id
         /\ orders[i].telegram_group_id = orders[j].telegram_group_id
         /\ orders[i].message_id = orders[j].message_id) => i = j

C26_ExpiredUserStopped ==
    sweep.pc = "expiry_done" =>
        \A u \in Users :
            users[u].subscription_end <= sweep.checked_at =>
                /\ ~users[u].monitoring_enabled
                /\ ~is_running(u)

\* The enabled groups rows of user u in a groups table.
EnabledIn(table, u) ==
    {g \in GroupIds : table[g].user_id = u /\ table[g].is_enabled}

\* C27: a step that leaves a user without keywords, or without enabled
\* groups, when the user had some before it, leaves the user's monitoring
\* flag cleared.
C27_EmptiedSetClearsFlag ==
    [][\A u \in Users :
          (\/ keyword_rows[u] # {} /\ keyword_rows'[u] = {}
           \/ EnabledIn(groups, u) # {} /\ EnabledIn(groups', u) = {})
          => ~users'[u].monitoring_enabled]_vars

\* C28: a step that changes a user's monitoring flag from disabled to enabled
\* starts in a state where the user has a keyword and an enabled group.
C28_EnabledOnlyWhenReady ==
    [][\A u \in Users :
          ~users[u].monitoring_enabled /\ users'[u].monitoring_enabled
          => keyword_rows[u] # {} /\ EnabledIn(groups, u) # {}]_vars

\* The rows of user u in a set of rows.
RowsOfUser(rows, u) == {r \in rows : r.user_id = u}

\* C29: a sync that repeats the one before it, with the same list and on the
\* table that one left, leaves the rows as they were; and no user has two
\* rows for one chat id.
C29_SyncIdempotent ==
    /\ synced.again => ~synced.changed
    /\ \A g, h \in GroupIds :
           /\ groups[g] # NoGroup
           /\ groups[g].user_id = groups[h].user_id
           /\ groups[g].telegram_group_id = groups[h].telegram_group_id
           => g = h

\* C30: the rows a sync leaves to its user never hold a name under both a
\* plain group id and a supergroup id.
C30_SupergroupReplacesLegacy ==
    \A r, s \in RowsOfUser(synced.after, synced.user_id) :
        r.group_name = s.group_name =>
            StartsWithMinus100(r.telegram_group_id)
                = StartsWithMinus100(s.telegram_group_id)

\* The group_messages table, the per-user mode's record of observed messages.
\* GroupMessageCRUD.add is its only insert and nothing calls it: the table
\* holds no row in any state.
group_messages == <<>>

\* The record of the observed message an order, delivery or notification was
\* produced for is in its mode's table.
Observed(made) ==
    IF made.mode = "shared"
    THEN made.shared_message_id \in DOMAIN shared_messages
    ELSE \E i \in DOMAIN group_messages :
             /\ group_messages[i].user_id = made.user_id
             /\ group_messages[i].telegram_group_id = made.telegram_group_id
             /\ group_messages[i].message_id = made.message_id

\* C33: in both modes, whenever a delivery, an order or a notification exists
\* for a message, the record of the observed message was stored before.
C33_ObservedMessageFirst ==
    /\ \A i \in DOMAIN deliveries : Observed(deliveries[i])
    /\ \A i \in DOMAIN orders : Observed(orders[i])
    /\ \A i \in DOMAIN notifications : Observed(notifications[i])

\* C31: every send was attempted with the pair's delivery committed, a failed
\* send leaves the delivery in place, and no send follows a failed one for
\* the same (message, user) pair.
C31_StoreThenNotifyOnce ==
    /\ \A i \in DOMAIN batch.attempts :
           \E d \in DOMAIN deliveries :
               <<deliveries[d].shared_message_id, deliveries[d].user_id>>
                   = batch.attempts[i].pair
    /\ \A i, j \in DOMAIN batch.attempts :
           i < j /\ batch.attempts[i].pair = batch.attempts[j].pair
           => batch.attempts[i].ok

\* The users the query of _dispatch_to_users returns for stored message m and
\* whose filters match its text.
Eligible(m) ==
    {u \in Users :
        /\ \E g \in GroupIds :
               DispatchWhere(g, shared_messages[m].telegram_group_id)
                   /\ groups[g].user_id = u
        /\ UserKeywords(u) # <<>>
        /\ check_message(MessageParser(UserKeywords(u), UserCities(u)),
                         shared_messages[m].message_text).is_match}

\* C32: when a batch is over, every eligible user whose own processing met no
\* failure has a delivery and, with a bot, was sent the notification.
C32_FailureStaysWithItsUser ==
    job.pc = "idle" =>
        \A m \in DOMAIN shared_messages : \A u \in Eligible(m) :
            <<m, u>> \notin batch.faulted =>
                /\ \E d \in DOMAIN deliveries :
                       /\ deliveries[d].shared_message_id = m
                       /\ deliveries[d].user_id = u
                /\ _bot => \E i \in DOMAIN batch.attempts :
                               /\ batch.attempts[i].pair = <<m, u>>
                               /\ batch.attempts[i].ok

\* C34: every call of stop() returns, and once it has returned both loops
\* have ended.
C34_StopEndsBothLoops ==
    /\ [](sched.stop # "idle" => <>(sched.stop = "idle" /\ sched.stopped))
    /\ [](sched.stopped =>
              \A l \in Loops : sched.task[l] \in {"none", "exited"})

\* stop() has returned after a cancellation that met the hourly loop in the
\* middle of an iteration and the payment loop in its sleep.
C34_Witness ==
    /\ sched.stopped
    /\ sched.cancelled_in["hourly"] = "iteration"
    /\ sched.cancelled_in["payments"] = "sleep"

\* C35: an order's responded flag is true only when a reply for that order
\* has been sent; an order_take call whose send raised has written nothing
\* and leaves the orders table as it was; and a call that reads an order
\* which is still not responded after such a failure goes on to send.
C35_RespondedOnlyAfterSentReply ==
    /\ [](\A o \in 1..NumOrders :
              orders[o].responded => RepliesTo(o) # {})
    /\ [](\A t \in Tasks :
              (rtask[t].ret = "error" /\ rtask[t].sent = 0) =>
                  ~rtask[t].wrote)
    /\ [][\A t \in Tasks :
              /\ TakeSendRaise(t) => orders' = orders
              /\ (/\ TakeGetOrder(t)
                  /\ rtask[t].order_id <= Len(orders)
                  /\ ~orders[rtask[t].order_id].responded)
                     => rtask'[t].pc = "send"
        ]_vars

\* A call's send raised, the order is still not responded, and another call
\* for the same order has sent its reply and is about to mark the order.
C35_Witness ==
    \E t, s \in Tasks :
        /\ rtask[t].ret = "error"
        /\ rtask[t].sent = 0
        /\ rtask[s].order_id = rtask[t].order_id
        /\ rtask[s].pc = "mark"
        /\ ~rtask[s].after
        /\ ~orders[rtask[t].order_id].responded
        /\ Cardinality(RepliesTo(rtask[t].order_id)) = 1

\* No monitoring_start and no monitoring_stop handler of user u is in flight.
Quiescent(u) == mstart[u].pc = "idle" /\ mstart[u].stop = "idle"

\* The pool holds a running client of user u.
HoldsRunning(u) == is_running(u) /\ conn[u][clients[u]]._running

\* C36: whenever no monitoring_start and no monitoring_stop handler of a
\* user is in flight, the user's monitoring_enabled flag is true exactly
\* when the pool holds a running client of that user.  Violated: a
\* monitoring_stop that runs between the toggle and the start_client of a
\* monitoring_start clears the flag and finds no client, and the client is
\* registered afterwards.
C36_FlagMatchesPoolWhenQuiescent ==
    \A u \in Users :
        Quiescent(u) => (users[u].monitoring_enabled <=> HoldsRunning(u))

\* C37: every message that passed the filters of a registered per-user
\* Connection had process_group_message run for it, whether
\* start_active_userbots or monitoring_start started the Connection.
\* Violated: the callback of monitoring_start takes five arguments and
\* _handle_message passes six, so the call raises TypeError.
C37_PassedMessageIsProcessed ==
    \A i \in 1..Len(inbound.passed) : inbound.passed[i].ran

\* The workers whose client is registered in the pool and running.
RunningClients == {k \in Owners : clients[k] # None /\ conn[k][clients[k]]._running}

\* C38: at every moment, also between two refreshes of redistribute_groups,
\* no chat id is in the watch-list of two running workers.  Violated: the
\* table is rewritten first and the workers are refreshed one by one, so a
\* worker that was given a chat watches it while the worker that had it has
\* not been refreshed yet.
C38_WatchListsDisjoint ==
    \A k, l \in RunningClients :
        k # l => monitored_groups[k] \cap monitored_groups[l] = {}

\* No active worker has more active rows in the table than its max_groups.
WithinCapacity(table) ==
    \A k \in Owners :
        worker_status[k].is_active =>
            Cardinality({i \in 1..Len(table) :
                            table[i].worker_id = k /\ table[i].is_active})
                <= workers[k].max_groups

\* C39: when a redistribute_groups or assign_new_group call that began with
\* every active worker within its max_groups has returned, every active
\* worker is within its max_groups.  Violated: redistribute_groups deals the
\* chats out by position and never reads max_groups.
C39_NoWorkerOverCapacity ==
    \A t \in Tasks :
        (dtask[t].pc = "done" /\ WithinCapacity(dtask[t].before)) =>
            WithinCapacity(assignments)

\* Nothing of the payment is in progress and nothing is left to do for it.
PaymentSettled ==
    /\ pay.gateway = "succeeded"
    /\ pay.webhook = "done"
    /\ pay.poller = "idle"
    /\ pay.manual = "idle"
    /\ ~pay.pending

\* C40: a successful payment extends the payer's subscription exactly once
\* under every interleaving of the webhook, the poller and the check-payment
\* button, also when a step after the extension fails: never twice, and
\* once when the payment is settled.  Violated: only the webhook tests the
\* row's status; the poller and the button extend whenever the payment
\* system reports the payment as succeeded.
C40_ExtendedExactlyOnce ==
    /\ pay.extensions <= 1
    /\ PaymentSettled => pay.extensions = 1

====
